---- MODULE Spec2Model ----
(***************************************************************************)
(* Model of the event aggregation and commission-earnings engine of the    *)
(* affiliate dashboard: the event classifier, the one-time-per-user        *)
(* conversion counters, the union-map builders, the global aggregation and *)
(* the daily time-series builders.                                         *)
(*                                                                         *)
(* The engine is a set of synchronous functions.  Each is an operator      *)
(* here, computed as the TypeScript computes it, and each action of the    *)
(* state machine is one call: it draws the arguments from a bounded set    *)
(* and records the call (op), its arguments (args) and its result (res).   *)
(*                                                                         *)
(* Around the engine, the module models the refreshes of the               *)
(* useReferralData hook (the requests in flight and what their responses   *)
(* commit), the objects that outlive a call (memory), the chart data of    *)
(* PerformanceCharts, the per-user earnings of UserDetailView and          *)
(* AuthContext.login.                                                      *)
(***************************************************************************)
EXTENDS Integers, Sequences, FiniteSets, TLC

VARIABLES op, args, res

\* The state of the useReferralData hook and the requests of its refreshes.
VARIABLES hookReferralCodes, hookStats, timeSeriesData, loadingCodes,
          loadingHistory, error, codesRequest, historyRequest

hookVars == <<hookReferralCodes, hookStats, timeSeriesData, loadingCodes,
              loadingHistory, error, codesRequest, historyRequest>>

\* The objects that outlive a call: the default commission rates of the
\* module and the codes and union map the computations are handed.
VARIABLES memory

vars == <<op, args, res, hookVars, memory>>

(***************************************************************************)
(* Bounds of the model.                                                    *)
(***************************************************************************)
MaxEvents == 3
MaxUsers == 2
MaxUserEvents == 2
MaxCodes == 2
MaxCodeEvents == 2
MaxLegacyCodes == 2
MaxLegacyItems == 1
MaxDay == 2
MaxTimestamps == 1
Today == 40
MaxCount == 3
MaxStatCodes == 2
MaxTokens == 5
MaxItems == 2
MaxRefreshes == 2
MaxCalls == 3

SeqsUpTo(S, n) == UNION {[1..k -> S] : k \in 0..n}

(***************************************************************************)
(* Purchase events.  A PurchaseEvent is modelled by the two fields the     *)
(* classifier reads.  Absent stands for a missing period_type, Null for    *)
(* the null the classifier returns.                                        *)
(***************************************************************************)
Absent == "absent"
Null == "null"

EventTypes ==
    {"INITIAL_PURCHASE", "RENEWAL", "CANCELLATION", "SUBSCRIPTION_PAUSED", "TRANSFER"}

PeriodTypes == {"TRIAL", "NORMAL", "INTRO", Absent}

PurchaseEvent(t, p) == [type |-> t, period_type |-> p]

AllPurchaseEvents == [type : EventTypes, period_type : PeriodTypes]

\* The event shapes the counters are run on: one of each class the
\* classifier distinguishes.
EventKinds ==
    { PurchaseEvent("INITIAL_PURCHASE", "TRIAL"),
      PurchaseEvent("INITIAL_PURCHASE", "NORMAL"),
      PurchaseEvent("RENEWAL", "NORMAL"),
      PurchaseEvent("CANCELLATION", "NORMAL"),
      PurchaseEvent("INITIAL_PURCHASE", "INTRO") }

UserEventKinds ==
    { PurchaseEvent("INITIAL_PURCHASE", "TRIAL"),
      PurchaseEvent("RENEWAL", "NORMAL"),
      PurchaseEvent("CANCELLATION", "NORMAL") }

(***************************************************************************)
(* trialVsPurchaseIdentifier: the if / else-if chain, first match wins.    *)
(***************************************************************************)
trialVsPurchaseIdentifier_RenewalIgnored(event) ==
    IF event.type = "INITIAL_PURCHASE" /\ event.period_type = "TRIAL"
    THEN "free_trial"
    ELSE IF event.type = "INITIAL_PURCHASE" /\ event.period_type = "NORMAL"
    THEN "purchase"
    ELSE Null

trialVsPurchaseIdentifier(event) ==
    IF event.type = "INITIAL_PURCHASE" /\ event.period_type = "TRIAL"
    THEN "free_trial"
    ELSE IF event.type = "INITIAL_PURCHASE" /\ event.period_type = "NORMAL"
    THEN "purchase"
    ELSE IF event.type = "RENEWAL"
    THEN "purchase"
    ELSE Null

(***************************************************************************)
(* countConversionsFromEvents, one-time commission version: the forEach    *)
(* is a left fold over the events with the accumulator                     *)
(* (conversions, hasFreeTrial, hasPurchase).                               *)
(***************************************************************************)
CountStep(acc, event) ==
    LET category == trialVsPurchaseIdentifier(event) IN
    IF category = "free_trial" /\ ~acc.hasFreeTrial
    THEN [acc EXCEPT !.hasFreeTrial = TRUE, !.trial = 1]
    ELSE IF category = "purchase" /\ ~acc.hasPurchase
    THEN [acc EXCEPT !.hasPurchase = TRUE, !.paid = 1]
    ELSE acc

RECURSIVE CountFold(_, _)
CountFold(acc, events) ==
    IF events = <<>> THEN acc
    ELSE CountFold(CountStep(acc, Head(events)), Tail(events))

countConversionsFromEvents(events) ==
    LET acc == CountFold([trial |-> 0, paid |-> 0,
                          hasFreeTrial |-> FALSE, hasPurchase |-> FALSE], events)
    IN [trial |-> acc.trial, paid |-> acc.paid]

(***************************************************************************)
(* countConversionsFromEvents, the version of                              *)
(* frontend/src/utils/purchaseHistory.ts: it increments per event and      *)
(* looks at INITIAL_PURCHASE events only.                                  *)
(***************************************************************************)
FrontendCountStep(acc, event) ==
    IF event.type = "INITIAL_PURCHASE"
    THEN IF event.period_type = "TRIAL"
         THEN [acc EXCEPT !.trial = @ + 1]
         ELSE IF event.period_type = "NORMAL"
         THEN [acc EXCEPT !.paid = @ + 1]
         ELSE acc
    ELSE acc

RECURSIVE FrontendCountFold(_, _)
FrontendCountFold(acc, events) ==
    IF events = <<>> THEN acc
    ELSE FrontendCountFold(FrontendCountStep(acc, Head(events)), Tail(events))

frontendCountConversionsFromEvents(events) ==
    FrontendCountFold([trial |-> 0, paid |-> 0], events)

(***************************************************************************)
(* countConversionsFromMultipleUsers: reduce over the users, adding each   *)
(* user's flags to the totals.                                             *)
(***************************************************************************)
RECURSIVE MultipleUsersFold_PerEvent(_, _)
MultipleUsersFold_PerEvent(totals, usersEvents) ==
    IF usersEvents = <<>> THEN totals
    ELSE LET userConversions == frontendCountConversionsFromEvents(Head(usersEvents))
         IN MultipleUsersFold_PerEvent(
                [trial |-> totals.trial + userConversions.trial,
                 paid |-> totals.paid + userConversions.paid],
                Tail(usersEvents))

RECURSIVE MultipleUsersFold(_, _)
MultipleUsersFold(totals, usersEvents) ==
    IF usersEvents = <<>> THEN totals
    ELSE LET userConversions == countConversionsFromEvents(Head(usersEvents))
         IN MultipleUsersFold(
                [trial |-> totals.trial + userConversions.trial,
                 paid |-> totals.paid + userConversions.paid],
                Tail(usersEvents))

countConversionsFromMultipleUsers_PerEvent(usersEvents) ==
    MultipleUsersFold_PerEvent([trial |-> 0, paid |-> 0], usersEvents)

countConversionsFromMultipleUsers(usersEvents) ==
    MultipleUsersFold([trial |-> 0, paid |-> 0], usersEvents)

(***************************************************************************)
(* Strings that the code takes apart (event names, display names) are      *)
(* sequences of one-character strings.  The empty sequence is the empty    *)
(* string, which JavaScript treats as false in `a || b`.                   *)
(***************************************************************************)
UpperChars ==
    <<"A", "B", "C", "D", "E", "F", "G", "H", "I", "J", "K", "L", "M",
      "N", "O", "P", "Q", "R", "S", "T", "U", "V", "W", "X", "Y", "Z">>

LowerChars ==
    <<"a", "b", "c", "d", "e", "f", "g", "h", "i", "j", "k", "l", "m",
      "n", "o", "p", "q", "r", "s", "t", "u", "v", "w", "x", "y", "z">>

toUpperCaseChar(c) ==
    IF \E i \in DOMAIN LowerChars : LowerChars[i] = c
    THEN UpperChars[CHOOSE i \in DOMAIN LowerChars : LowerChars[i] = c]
    ELSE c

toLowerCaseChar(c) ==
    IF \E i \in DOMAIN UpperChars : UpperChars[i] = c
    THEN LowerChars[CHOOSE i \in DOMAIN UpperChars : UpperChars[i] = c]
    ELSE c

toLowerCase(str) == [i \in DOMAIN str |-> toLowerCaseChar(str[i])]

\* str.split(sep): the pieces between the separators, empty pieces included.
RECURSIVE SplitFrom(_, _, _, _)
SplitFrom(str, sep, piece, pieces) ==
    IF str = <<>> THEN Append(pieces, piece)
    ELSE IF Head(str) = sep
    THEN SplitFrom(Tail(str), sep, <<>>, Append(pieces, piece))
    ELSE SplitFrom(Tail(str), sep, Append(piece, Head(str)), pieces)

split(str, sep) == SplitFrom(str, sep, <<>>, <<>>)

\* pieces.join(sep)
RECURSIVE join(_, _)
join(pieces, sep) ==
    IF pieces = <<>> THEN <<>>
    ELSE IF Len(pieces) = 1 THEN Head(pieces)
    ELSE Head(pieces) \o <<sep>> \o join(Tail(pieces), sep)

\* word.charAt(0).toUpperCase() + word.slice(1)
capitalize(word) ==
    IF word = <<>> THEN <<>>
    ELSE <<toUpperCaseChar(Head(word))>> \o Tail(word)

s_purchase == <<"p", "u", "r", "c", "h", "a", "s", "e">>
s_free_trial == <<"f", "r", "e", "e", "_", "t", "r", "i", "a", "l">>
s_subscription == <<"s", "u", "b", "s", "c", "r", "i", "p", "t", "i", "o", "n">>
s_renewal == <<"r", "e", "n", "e", "w", "a", "l">>
s_RENEWAL == <<"R", "E", "N", "E", "W", "A", "L">>
s_signup == <<"s", "i", "g", "n", "u", "p">>
s_3_meals_logged ==
    <<"3", "_", "m", "e", "a", "l", "s", "_", "l", "o", "g", "g", "e", "d">>

NoDisplayName == <<>>
d_Paid == <<"P", "a", "i", "d">>
d_Gold == <<"G", "o", "l", "d">>
d_Signup == <<"S", "i", "g", "n", "u", "p">>

PURCHASE_EVENT_TYPES == {s_purchase, s_free_trial, s_subscription, s_renewal}

isPurchaseEventType(eventType) == toLowerCase(eventType) \in PURCHASE_EVENT_TYPES

formatEventNameForDisplay(eventName) ==
    LET words == split(eventName, "_")
    IN join([i \in DOMAIN words |-> capitalize(words[i])], " ")

(***************************************************************************)
(* The union map is a JavaScript Map, which keeps insertion order: a       *)
(* sequence of entries with pairwise different names.  Map.set of a new    *)
(* key appends; the builders never set an existing key.                    *)
(***************************************************************************)
MapHas(unionMap, name) == \E i \in DOMAIN unionMap : unionMap[i].name = name

MapKeys(unionMap) == {unionMap[i].name : i \in DOMAIN unionMap}

MapEntry(name, displayName) ==
    [name |-> name, displayName |-> displayName,
     isPurchaseType |-> isPurchaseEventType(name)]

\* if (!unionMap.has(name)) unionMap.set(name, {...})
SetIfAbsent_Overwrite(unionMap, name, displayName) ==
    IF MapHas(unionMap, name)
    THEN [i \in DOMAIN unionMap |->
            IF unionMap[i].name = name THEN MapEntry(name, displayName)
            ELSE unionMap[i]]
    ELSE Append(unionMap, MapEntry(name, displayName))

SetIfAbsent(unionMap, name, displayName) ==
    IF MapHas(unionMap, name) THEN unionMap
    ELSE Append(unionMap, MapEntry(name, displayName))

\* for (const event of code.events) ...
RECURSIVE AddEvents(_, _)
AddEvents(unionMap, events) ==
    IF events = <<>> THEN unionMap
    ELSE AddEvents(SetIfAbsent(unionMap, Head(events).commission_event_name,
                               Head(events).display_name),
                   Tail(events))

\* config.display_name || formatEventNameForDisplay(config.event)
ConfigDisplayName(config) ==
    IF config.display_name # NoDisplayName THEN config.display_name
    ELSE formatEventNameForDisplay(config.event)

\* for (const config of configs) ...
RECURSIVE AddConfigs(_, _)
AddConfigs(unionMap, configs) ==
    IF configs = <<>> THEN unionMap
    ELSE AddConfigs(SetIfAbsent(unionMap, Head(configs).event,
                                ConfigDisplayName(Head(configs))),
                    Tail(configs))

RECURSIVE UnionFromCodes(_, _)
UnionFromCodes(unionMap, referralCodes) ==
    IF referralCodes = <<>> THEN unionMap
    ELSE UnionFromCodes(AddEvents(unionMap, Head(referralCodes).events),
                        Tail(referralCodes))

buildEventUnionMap(referralCodes) == UnionFromCodes(<<>>, referralCodes)

RECURSIVE UnionFromConfigs(_, _)
UnionFromConfigs(unionMap, commissionConfigs) ==
    IF commissionConfigs = <<>> THEN unionMap
    ELSE UnionFromConfigs(AddConfigs(unionMap, Head(commissionConfigs)),
                          Tail(commissionConfigs))

buildEventUnionMapFromCommissionConfigs(commissionConfigs) ==
    UnionFromConfigs(<<>>, commissionConfigs)

\* A legacy code: `code.commissionConfig || []` makes an absent config list
\* the empty list; hasEvents tells whether code.events is present
\* (`if (code.events)`).  The defensive branch for a `codes` that is no
\* array returns the empty map and is not drawn as an input.
RECURSIVE UnionFromLegacy(_, _)
UnionFromLegacy(unionMap, codes) ==
    IF codes = <<>> THEN unionMap
    ELSE LET code == Head(codes)
             withConfigs == AddConfigs(unionMap, code.commissionConfig)
             withEvents == IF code.hasEvents
                           THEN AddEvents(withConfigs, code.events)
                           ELSE withConfigs
         IN UnionFromLegacy(withEvents, Tail(codes))

buildEventUnionMapFromLegacy(codes) == UnionFromLegacy(<<>>, codes)

(***************************************************************************)
(* aggregateGlobalTotals: a Record<string, number>, here a function from   *)
(* the keys to the numbers; hasOwnProperty is membership of the domain.    *)
(***************************************************************************)
ZeroCounts(unionMap) == [name \in MapKeys(unionMap) |-> 0]

AddCount(totals, event) ==
    IF event.commission_event_name \in DOMAIN totals
    THEN [totals EXCEPT ![event.commission_event_name] = @ + event.count]
    ELSE totals

RECURSIVE AddCounts(_, _)
AddCounts(totals, events) ==
    IF events = <<>> THEN totals
    ELSE AddCounts(AddCount(totals, Head(events)), Tail(events))

RECURSIVE TotalsFromCodes(_, _)
TotalsFromCodes(totals, referralCodes) ==
    IF referralCodes = <<>> THEN totals
    ELSE TotalsFromCodes(AddCounts(totals, Head(referralCodes).events),
                         Tail(referralCodes))

\* The totals start from the events seen instead of the union map's keys.
RECURSIVE SeenCounts(_, _)
SeenCounts(totals, events) ==
    IF events = <<>> THEN totals
    ELSE LET e == Head(events)
             n == e.commission_event_name
         IN SeenCounts([k \in DOMAIN totals \cup {n} |->
                           (IF k \in DOMAIN totals THEN totals[k] ELSE 0)
                           + (IF k = n THEN e.count ELSE 0)],
                       Tail(events))

RECURSIVE SeenTotalsFromCodes(_, _)
SeenTotalsFromCodes(totals, referralCodes) ==
    IF referralCodes = <<>> THEN totals
    ELSE SeenTotalsFromCodes(SeenCounts(totals, Head(referralCodes).events),
                             Tail(referralCodes))

aggregateGlobalTotals_SeenOnly(referralCodes, unionMap) ==
    SeenTotalsFromCodes(<<>>, referralCodes)

aggregateGlobalTotals(referralCodes, unionMap) ==
    TotalsFromCodes(ZeroCounts(unionMap), referralCodes)

(***************************************************************************)
(* aggregateGlobalTotalsFromLegacy: a code with an events list (an empty   *)
(* one too) adds the counts of its events; a code without one adds the     *)
(* numbers of its stats object.                                            *)
(***************************************************************************)
AddStats(totals, codeStats) ==
    [name \in DOMAIN totals |->
        IF name \in DOMAIN codeStats THEN totals[name] + codeStats[name]
        ELSE totals[name]]

RECURSIVE TotalsFromLegacyCodes(_, _)
TotalsFromLegacyCodes(totals, codes) ==
    IF codes = <<>> THEN totals
    ELSE LET code == Head(codes) IN
         TotalsFromLegacyCodes(
             IF code.hasEvents THEN AddCounts(totals, code.events)
             ELSE AddStats(totals, code.stats),
             Tail(codes))

aggregateGlobalTotalsFromLegacy(codes, unionMap) ==
    TotalsFromLegacyCodes(ZeroCounts(unionMap), codes)

(***************************************************************************)
(* filterByReferralCodes: an empty selection returns all codes.            *)
(***************************************************************************)
filterByReferralCodes_NoEmptyCase(allCodes, selectedCodes) ==
    LET selectedSet == {selectedCodes[i] : i \in DOMAIN selectedCodes}
        Selected(code) == code.code \in selectedSet
    IN SelectSeq(allCodes, Selected)

filterByReferralCodes(allCodes, selectedCodes) ==
    IF Len(selectedCodes) = 0 THEN allCodes
    ELSE LET selectedSet == {selectedCodes[i] : i \in DOMAIN selectedCodes}
             Selected(code) == code.code \in selectedSet
         IN SelectSeq(allCodes, Selected)

(***************************************************************************)
(* Dates.  An instant (a JavaScript Date) is a number of hours since       *)
(* 00:00 UTC of day 0; a "YYYY-MM-DD" string is the number of its day, so  *)
(* that the lexicographic order of the zero-padded strings is the order of *)
(* the numbers.  getDate and setDate work on the local calendar of the     *)
(* browser's time zone, toISOString on UTC.  A time zone is its UTC offset *)
(* before and after one transition (a fixed zone has the same offset on    *)
(* both sides).                                                            *)
(***************************************************************************)
HoursPerDay == 24
DefaultRangeDays == 30

\* new Date("YYYY-MM-DD"): midnight UTC of that day.
ParseDate(day) == HoursPerDay * day

\* date.toISOString().split("T")[0]
ISODate(instant) == instant \div HoursPerDay

Offset(tz, instant) == IF instant < tz.at THEN tz.before ELSE tz.after

LocalTime(tz, instant) == instant + Offset(tz, instant)

\* The instant of a local time.  A local time that occurs twice or not at
\* all is read with the offset before the transition.
UTCOfLocal(tz, local) ==
    IF local - tz.before < tz.at THEN local - tz.before
    ELSE IF local - tz.after >= tz.at THEN local - tz.after
    ELSE local - tz.before

\* d.setDate(d.getDate() + n): n days later on the local calendar, at the
\* same local time of day.
SetDatePlus(tz, instant, n) ==
    UTCOfLocal(tz, LocalTime(tz, instant) + HoursPerDay * n)

\* An optional date argument is <<>> when it is not given, else <<day>>.
NoDate == <<>>
Given(day) == <<day>>

Timestamp(day, hour) == [date |-> day, hour |-> hour]

\* timestamp.split("T")[0]
DateKey(timestamp) == timestamp.date

MapGet(map, key, default) == IF key \in DOMAIN map THEN map[key] ELSE default

\* if (!dateCountsMap.has(dateKey)) dateCountsMap.set(dateKey, zeros)
EnsureDate(dateCountsMap, unionMap, dateKey) ==
    IF dateKey \in DOMAIN dateCountsMap THEN dateCountsMap
    ELSE [k \in DOMAIN dateCountsMap \cup {dateKey} |->
            IF k = dateKey THEN ZeroCounts(unionMap) ELSE dateCountsMap[k]]

\* The increment without the hasOwnProperty test.
CountOccurrence_Unchecked(dateCountsMap, unionMap, dateKey, name) ==
    LET ensured == EnsureDate(dateCountsMap, unionMap, dateKey)
        counts == ensured[dateKey]
    IN [ensured EXCEPT ![dateKey] =
           [k \in DOMAIN counts \cup {name} |-> MapGet(counts, k, 0)
                                                + (IF k = name THEN 1 ELSE 0)]]

\* One occurrence of event `name` on `dateKey`: the date gets its zeroed
\* counts if it is new, and the count is incremented if the name is a key.
CountOccurrence(dateCountsMap, unionMap, dateKey, name) ==
    LET ensured == EnsureDate(dateCountsMap, unionMap, dateKey)
    IN IF name \in DOMAIN ensured[dateKey]
       THEN [ensured EXCEPT ![dateKey][name] = @ + 1]
       ELSE ensured

RECURSIVE CountTimestamps(_, _, _, _)
CountTimestamps(dateCountsMap, unionMap, name, timestamps) ==
    IF timestamps = <<>> THEN dateCountsMap
    ELSE CountTimestamps(
             CountOccurrence(dateCountsMap, unionMap, DateKey(Head(timestamps)), name),
             unionMap, name, Tail(timestamps))

RECURSIVE CountEnrichedEvents(_, _, _)
CountEnrichedEvents(dateCountsMap, unionMap, events) ==
    IF events = <<>> THEN dateCountsMap
    ELSE CountEnrichedEvents(
             CountTimestamps(dateCountsMap, unionMap,
                             Head(events).commission_event_name,
                             Head(events).timestamps),
             unionMap, Tail(events))

RECURSIVE CountEnrichedCodes(_, _, _)
CountEnrichedCodes(dateCountsMap, unionMap, referralCodes) ==
    IF referralCodes = <<>> THEN dateCountsMap
    ELSE CountEnrichedCodes(
             CountEnrichedEvents(dateCountsMap, unionMap, Head(referralCodes).events),
             unionMap, Tail(referralCodes))

Min(S) == CHOOSE x \in S : \A y \in S : x <= y

\* The range: startDate || (earliest accumulated date, or today - 30 days),
\* endDate || today.
RangeStartIso(env, dateCountsMap, startDate) ==
    IF startDate # NoDate THEN startDate[1]
    ELSE IF DOMAIN dateCountsMap # {} THEN Min(DOMAIN dateCountsMap)
    ELSE ISODate(SetDatePlus(env.tz, env.now, 0 - DefaultRangeDays))

RangeEndIso(env, endDate) ==
    IF endDate # NoDate THEN endDate[1] ELSE ISODate(env.now)

\* for (let d = new Date(start); d <= end; d.setDate(d.getDate() + 1))
\*     dates.push(d.toISOString().split("T")[0])
RECURSIVE FillDates(_, _, _, _)
FillDates(tz, d, end, dates) ==
    IF d > end THEN dates
    ELSE FillDates(tz, SetDatePlus(tz, d, 1), end, Append(dates, ISODate(d)))

\* The points of the dates: a date the accumulation has not seen gets the
\* zeroed counts.
SeriesPoints(dates, dateCountsMap, unionMap) ==
    [i \in DOMAIN dates |->
        LET counts == MapGet(dateCountsMap, dates[i], ZeroCounts(unionMap))
        IN [date |-> dates[i],
            signupConversions |-> 0,
            eventCounts |-> counts,
            trialConversions |-> MapGet(counts, s_free_trial, 0),
            paidConversions |-> MapGet(counts, s_purchase, 0)]]

FilledSeries(env, dateCountsMap, unionMap, startDate, endDate) ==
    LET start == ParseDate(RangeStartIso(env, dateCountsMap, startDate))
        end == ParseDate(RangeEndIso(env, endDate))
    IN SeriesPoints(FillDates(env.tz, start, end, <<>>), dateCountsMap, unionMap)

generateTimeSeriesFromEnrichedEvents(env, referralCodes, unionMap, startDate, endDate) ==
    FilledSeries(env, CountEnrichedCodes(<<>>, unionMap, referralCodes),
                 unionMap, startDate, endDate)

(***************************************************************************)
(* generateTimeSeriesFromLegacyHistory: the codes that carry a non-empty   *)
(* events list go to the enriched builder when there is any; otherwise the *)
(* dated events of the codes' users are counted, each event once.          *)
(***************************************************************************)
HasEnrichedEvents(c) == c.hasEvents /\ Len(c.events) > 0

EnrichedOfLegacy(codes) ==
    LET enriched == SelectSeq(codes, HasEnrichedEvents)
    IN [i \in DOMAIN enriched |->
           [code |-> enriched[i].referralCode, events |-> enriched[i].events]]

\* if (!event.date) continue; ... counts[event.type]++
RECURSIVE CountUserEvents(_, _, _)
CountUserEvents(dateCountsMap, unionMap, events) ==
    IF events = <<>> THEN dateCountsMap
    ELSE LET event == Head(events)
         IN CountUserEvents(
                IF event.date = NoDate THEN dateCountsMap
                ELSE CountOccurrence(dateCountsMap, unionMap,
                                     DateKey(event.date[1]), event.type),
                unionMap, Tail(events))

RECURSIVE CountUsers(_, _, _)
CountUsers(dateCountsMap, unionMap, users) ==
    IF users = <<>> THEN dateCountsMap
    ELSE CountUsers(CountUserEvents(dateCountsMap, unionMap, Head(users).events),
                    unionMap, Tail(users))

RECURSIVE CountLegacyCodes(_, _, _)
CountLegacyCodes(dateCountsMap, unionMap, codes) ==
    IF codes = <<>> THEN dateCountsMap
    ELSE CountLegacyCodes(CountUsers(dateCountsMap, unionMap, Head(codes).users),
                          unionMap, Tail(codes))

generateTimeSeriesFromLegacyHistory(env, codes, unionMap, startDate, endDate) ==
    LET enrichedCodes == EnrichedOfLegacy(codes)
    IN IF Len(enrichedCodes) > 0
       THEN generateTimeSeriesFromEnrichedEvents(env, enrichedCodes, unionMap,
                                                 startDate, endDate)
       ELSE FilledSeries(env, CountLegacyCodes(<<>>, unionMap, codes),
                         unionMap, startDate, endDate)

(***************************************************************************)
(* generateTimeSeriesWithDateRange (frontend/src/utils/timeSeries.ts):     *)
(* the dates of the range are the keys of a Map, zeroed; every             *)
(* INITIAL_PURCHASE event whose UTC date is a key is counted; the entries  *)
(* are returned sorted by date.  startDate is a "YYYY-MM-DD" string, the   *)
(* end defaults to now.                                                    *)
(***************************************************************************)
ZeroDay == [conversions |-> 0, trialConversions |-> 0, paidConversions |-> 0]

CountPurchase(dateMap, event) ==
    LET dateKey == ISODate(event.purchased_at_ms) IN
    IF event.type = "INITIAL_PURCHASE" /\ dateKey \in DOMAIN dateMap
    THEN [dateMap EXCEPT ![dateKey] =
            [conversions |-> @.conversions + 1,
             trialConversions |->
                 @.trialConversions + (IF event.period_type = "TRIAL" THEN 1 ELSE 0),
             paidConversions |->
                 @.paidConversions + (IF event.period_type = "NORMAL" THEN 1 ELSE 0)]]
    ELSE dateMap

RECURSIVE CountPurchases(_, _)
CountPurchases(dateMap, events) ==
    IF events = <<>> THEN dateMap
    ELSE CountPurchases(CountPurchase(dateMap, Head(events)), Tail(events))

\* Array.from(set).sort(): ascending.
RECURSIVE SortedDates(_)
SortedDates(S) ==
    IF S = {} THEN <<>> ELSE <<Min(S)>> \o SortedDates(S \ {Min(S)})

generateTimeSeriesWithDateRange(env, events, startDate, endDate) ==
    LET start == ParseDate(startDate)
        end == IF endDate # NoDate THEN ParseDate(endDate[1]) ELSE env.now
        filled == FillDates(env.tz, start, end, <<>>)
        zeroed == [d \in {filled[i] : i \in DOMAIN filled} |-> ZeroDay]
        dateMap == CountPurchases(zeroed, events)
        dates == SortedDates(DOMAIN dateMap)
    IN [i \in DOMAIN dates |->
           [date |-> dates[i],
            conversions |-> dateMap[dates[i]].conversions,
            trialConversions |-> dateMap[dates[i]].trialConversions,
            paidConversions |-> dateMap[dates[i]].paidConversions]]

(***************************************************************************)
(* Money.  An amount or a rate is a decimal number, kept as its number of  *)
(* thousandths (2.125 is 2125), so that a rate with three decimals and the *)
(* rounding to two decimals are both exact.                                *)
(***************************************************************************)
ThousandthsPerCent == 10

\* Number(x.toFixed(2)) for x >= 0: the nearest multiple of 0.01, the larger
\* one when x is half-way between two.
toFixed2(x) ==
    ThousandthsPerCent * ((2 * x + ThousandthsPerCent) \div (2 * ThousandthsPerCent))

CommissionRate(perTrial, perPaid, currency) ==
    [perTrialConversion |-> perTrial, perPaidConversion |-> perPaid,
     currency |-> currency]

(***************************************************************************)
(* calculateEarnings (earnings.ts, fixed categories): the two amounts are  *)
(* rounded on return; the total is the rounding of the sum of the          *)
(* unrounded amounts.                                                      *)
(***************************************************************************)
calculateEarnings(trialConversions, paidConversions, rates) ==
    LET fromTrials == trialConversions * rates.perTrialConversion
        fromPaid == paidConversions * rates.perPaidConversion
        total == fromTrials + fromPaid
    IN [fromTrials |-> toFixed2(fromTrials),
        fromPaid |-> toFixed2(fromPaid),
        total |-> toFixed2(total),
        currency |-> rates.currency]

(***************************************************************************)
(* calculateEarnings, dynamic categories: calculateEarnings(stats, rules)  *)
(* as transformers.ts calls it.  Its file is not among the sources; it is  *)
(* modelled from the specification: one amount per rule, count x rate      *)
(* rounded to 2 decimals, the total the rounded sum of the amounts, the    *)
(* currency that of the last rule (USD without rules).                     *)
(***************************************************************************)
EarningsRule(event, rate, currency) ==
    [event |-> event, rate |-> rate, currency |-> currency]

RECURSIVE RulesBreakdown(_, _, _)
RulesBreakdown(breakdown, stats, rules) ==
    IF rules = <<>> THEN breakdown
    ELSE LET rule == Head(rules)
             amount == toFixed2(MapGet(stats, rule.event, 0) * rule.rate)
         IN RulesBreakdown(
                [event \in DOMAIN breakdown \cup {rule.event} |->
                    IF event = rule.event THEN amount ELSE breakdown[event]],
                stats, Tail(rules))

RECURSIVE SumBreakdown(_)
SumBreakdown(breakdown) ==
    IF DOMAIN breakdown = {} THEN 0
    ELSE LET event == CHOOSE event \in DOMAIN breakdown : TRUE
         IN breakdown[event]
            + SumBreakdown([e \in DOMAIN breakdown \ {event} |-> breakdown[e]])

frontendCalculateEarnings(stats, rules) ==
    LET breakdown == RulesBreakdown(<<>>, stats, rules)
    IN [breakdown |-> breakdown,
        total |-> toFixed2(SumBreakdown(breakdown)),
        currency |-> IF rules = <<>> THEN "USD" ELSE rules[Len(rules)].currency]

(***************************************************************************)
(* transformReferralCode.  A date of the schedule is an instant, NoDate    *)
(* when the backend gives none; the quota is NoQuota or Given(n); the      *)
(* earnings of the result are NoEarnings or Given(earnings).               *)
(***************************************************************************)
NoQuota == <<>>
NoEarnings == <<>>
NoRates == <<>>
NoStats == <<>>

\* (endDate && endDate < now) || (startDate && startDate > now)
inactiveBySchedule(now, startDate, endDate) ==
    \/ endDate # NoDate /\ endDate[1] < now
    \/ startDate # NoDate /\ startDate[1] > now

Max(a, b) == IF a >= b THEN a ELSE b

StatusOf(now, startDate, endDate, quota, usageCount) ==
    IF inactiveBySchedule(now, startDate, endDate) THEN "inactive"
    ELSE IF quota # NoQuota /\ usageCount >= quota[1] THEN "exhausted"
    ELSE "active"

\* Fixed categories: the conversions are the trial and paid purchase numbers.
transformReferralCode(env, backendRef, commissionRates) ==
    LET referralsCount == backendRef.referrals
        trialConversions ==
            IF backendRef.purchaseNumbers = NoStats THEN 0
            ELSE backendRef.purchaseNumbers[1].trial
        paidConversions ==
            IF backendRef.purchaseNumbers = NoStats THEN 0
            ELSE backendRef.purchaseNumbers[1].paid
        conversions == trialConversions + paidConversions
        usageCount == Max(conversions, referralsCount)
    IN [conversions |-> conversions,
        status |-> StatusOf(env.now, backendRef.startDate, backendRef.endDate,
                            backendRef.quota, usageCount),
        quota |-> backendRef.quota,
        referralsCount |-> referralsCount,
        startDate |-> backendRef.startDate,
        endDate |-> backendRef.endDate,
        trialConversions |-> trialConversions,
        paidConversions |-> paidConversions,
        earnings |->
            IF commissionRates = NoRates THEN NoEarnings
            ELSE Given(calculateEarnings(trialConversions, paidConversions,
                                         commissionRates[1]))]

transformReferralCodes(env, backendRefs, commissionRates) ==
    [i \in DOMAIN backendRefs |->
        transformReferralCode(env, backendRefs[i], commissionRates)]

\* Dynamic categories: the signups are the referrals and count as
\* conversions; the earnings come from the code's own rules.
frontendTransformReferralCode(env, backendRef) ==
    LET referralsCount ==
            IF backendRef.stats = NoStats THEN 0 ELSE backendRef.stats[1].totalReferrals
        signupConversions == referralsCount
        trialConversions ==
            IF backendRef.stats = NoStats THEN 0 ELSE backendRef.stats[1].free_trial
        paidConversions ==
            IF backendRef.stats = NoStats THEN 0 ELSE backendRef.stats[1].purchase
        conversions == signupConversions + trialConversions + paidConversions
        usageCount == Max(conversions, referralsCount)
        earningsStats == (s_signup :> referralsCount @@ s_free_trial :> trialConversions
                          @@ s_purchase :> paidConversions)
    IN [conversions |-> conversions,
        status |-> StatusOf(env.now, backendRef.startDate, backendRef.endDate,
                            backendRef.quota, usageCount),
        commissionConfig |-> backendRef.commissionConfig,
        quota |-> backendRef.quota,
        referralsCount |-> referralsCount,
        signupConversions |-> signupConversions,
        startDate |-> backendRef.startDate,
        endDate |-> backendRef.endDate,
        trialConversions |-> trialConversions,
        paidConversions |-> paidConversions,
        earnings |-> Given(frontendCalculateEarnings(earningsStats,
                                                     backendRef.commissionConfig))]

frontendTransformReferralCodes(env, backendRefs) ==
    [i \in DOMAIN backendRefs |-> frontendTransformReferralCode(env, backendRefs[i])]

(***************************************************************************)
(* calculateDashboardStats, fixed categories (transformers.ts with the     *)
(* fromTrials/fromPaid breakdown).  A code's optional earnings are         *)
(* NoEarnings or Given(earnings).                                          *)
(***************************************************************************)
createEmptyDashboardStats(currency) ==
    [totalReferralCodes |-> 0,
     activeReferralCodes |-> 0,
     inactiveReferralCodes |-> 0,
     exhaustedReferralCodes |-> 0,
     totalConversions |-> 0,
     totalReferrals |-> 0,
     trialConversions |-> 0,
     paidConversions |-> 0,
     totalEarnings |-> [fromTrials |-> 0, fromPaid |-> 0, total |-> 0,
                        currency |-> currency]]

\* referralCodes.find((code) => code.earnings)?.earnings?.currency || "USD"
RECURSIVE DefaultCurrency(_)
DefaultCurrency(referralCodes) ==
    IF referralCodes = <<>> THEN "USD"
    ELSE IF Head(referralCodes).earnings # NoEarnings
         THEN Head(referralCodes).earnings[1].currency
         ELSE DefaultCurrency(Tail(referralCodes))

TallyStatus_ExhaustedDropped(acc, code) ==
    [acc EXCEPT
        !.activeReferralCodes = @ + (IF code.status = "active" THEN 1 ELSE 0),
        !.inactiveReferralCodes = @ + (IF code.status = "inactive" THEN 1 ELSE 0)]

\* The status tallies of the reduce callback.
TallyStatus(acc, code) ==
    [acc EXCEPT
        !.activeReferralCodes = @ + (IF code.status = "active" THEN 1 ELSE 0),
        !.inactiveReferralCodes = @ + (IF code.status = "inactive" THEN 1 ELSE 0),
        !.exhaustedReferralCodes = @ + (IF code.status = "exhausted" THEN 1 ELSE 0)]

AddEarnings_FirstCurrency(totalEarnings, earnings) ==
    [fromTrials |-> totalEarnings.fromTrials + earnings.fromTrials,
     fromPaid |-> totalEarnings.fromPaid + earnings.fromPaid,
     total |-> totalEarnings.total + earnings.total,
     currency |-> totalEarnings.currency]

AddEarnings_TotalOfParts(totalEarnings, earnings) ==
    [fromTrials |-> totalEarnings.fromTrials + earnings.fromTrials,
     fromPaid |-> totalEarnings.fromPaid + earnings.fromPaid,
     total |-> totalEarnings.total + earnings.fromTrials + earnings.fromPaid,
     currency |-> earnings.currency]

AddEarnings(totalEarnings, earnings) ==
    [fromTrials |-> totalEarnings.fromTrials + earnings.fromTrials,
     fromPaid |-> totalEarnings.fromPaid + earnings.fromPaid,
     total |-> totalEarnings.total + earnings.total,
     currency |-> earnings.currency]

StatsStep(acc, code) ==
    LET counted ==
            [acc EXCEPT !.totalConversions = @ + code.conversions,
                        !.trialConversions = @ + code.trialConversions,
                        !.paidConversions = @ + code.paidConversions,
                        !.totalReferrals = @ + code.referralsCount]
        tallied == TallyStatus(counted, code)
    IN IF code.earnings # NoEarnings
       THEN [tallied EXCEPT !.totalEarnings = AddEarnings(@, code.earnings[1])]
       ELSE tallied

RECURSIVE StatsFold(_, _)
StatsFold(acc, referralCodes) ==
    IF referralCodes = <<>> THEN acc
    ELSE StatsFold(StatsStep(acc, Head(referralCodes)), Tail(referralCodes))

calculateDashboardStats(referralCodes) ==
    LET totals == StatsFold(createEmptyDashboardStats(DefaultCurrency(referralCodes)),
                            referralCodes)
    IN [totals EXCEPT
           !.totalReferralCodes = Len(referralCodes),
           !.totalEarnings =
               [fromTrials |-> toFixed2(totals.totalEarnings.fromTrials),
                fromPaid |-> toFixed2(totals.totalEarnings.fromPaid),
                total |-> toFixed2(totals.totalEarnings.total),
                currency |-> totals.totalEarnings.currency]]

(***************************************************************************)
(* calculateDashboardStats, dynamic categories (frontend/src/utils/        *)
(* transformers.ts): a code's earnings carry a breakdown keyed by event    *)
(* name; the combined breakdown adds the codes' amounts per event and is   *)
(* returned as accumulated, the total is rounded.                          *)
(***************************************************************************)
frontendCreateEmptyDashboardStats(currency) ==
    [totalReferralCodes |-> 0,
     activeReferralCodes |-> 0,
     inactiveReferralCodes |-> 0,
     exhaustedReferralCodes |-> 0,
     totalConversions |-> 0,
     totalReferrals |-> 0,
     signupConversions |-> 0,
     trialConversions |-> 0,
     paidConversions |-> 0,
     totalEarnings |-> [breakdown |-> <<>>, total |-> 0, currency |-> currency]]

\* acc.totalEarnings.breakdown[event] = (... || 0) + amount, for each entry
AddBreakdown(breakdown, added) ==
    [event \in DOMAIN breakdown \cup DOMAIN added |->
        MapGet(breakdown, event, 0) + MapGet(added, event, 0)]

frontendAddEarnings(totalEarnings, earnings) ==
    [breakdown |-> AddBreakdown(totalEarnings.breakdown, earnings.breakdown),
     total |-> totalEarnings.total + earnings.total,
     currency |-> earnings.currency]

frontendStatsStep_NoSignups(acc, code) ==
    LET counted ==
            [acc EXCEPT !.totalConversions = @ + code.conversions,
                        !.trialConversions = @ + code.trialConversions,
                        !.paidConversions = @ + code.paidConversions,
                        !.totalReferrals = @ + code.referralsCount]
        tallied == TallyStatus(counted, code)
    IN IF code.earnings # NoEarnings
       THEN [tallied EXCEPT !.totalEarnings = frontendAddEarnings(@, code.earnings[1])]
       ELSE tallied

frontendStatsStep(acc, code) ==
    LET counted ==
            [acc EXCEPT !.totalConversions = @ + code.conversions,
                        !.signupConversions = @ + code.signupConversions,
                        !.trialConversions = @ + code.trialConversions,
                        !.paidConversions = @ + code.paidConversions,
                        !.totalReferrals = @ + code.referralsCount]
        tallied == TallyStatus(counted, code)
    IN IF code.earnings # NoEarnings
       THEN [tallied EXCEPT !.totalEarnings = frontendAddEarnings(@, code.earnings[1])]
       ELSE tallied

RECURSIVE frontendStatsFold(_, _)
frontendStatsFold(acc, referralCodes) ==
    IF referralCodes = <<>> THEN acc
    ELSE frontendStatsFold(frontendStatsStep(acc, Head(referralCodes)),
                           Tail(referralCodes))

frontendCalculateDashboardStats(referralCodes) ==
    LET totals == frontendStatsFold(
                      frontendCreateEmptyDashboardStats(DefaultCurrency(referralCodes)),
                      referralCodes)
    IN [totals EXCEPT
           !.totalReferralCodes = Len(referralCodes),
           !.totalEarnings =
               [breakdown |-> totals.totalEarnings.breakdown,
                total |-> toFixed2(totals.totalEarnings.total),
                currency |-> totals.totalEarnings.currency]]

(***************************************************************************)
(* PerformanceCharts: the data points handed to the chart.  Each point of  *)
(* the time series inside the date range becomes a flat node with one      *)
(* value per event key found anywhere in the data (the count, or the count *)
(* times the rate of the event's commission rule) and total_metric.        *)
(***************************************************************************)
s_link_click == <<"l", "i", "n", "k", "_", "c", "l", "i", "c", "k">>

uniqueEvents(timeSeriesPoints) ==
    UNION {DOMAIN timeSeriesPoints[i].eventCounts : i \in DOMAIN timeSeriesPoints}

\* commissionRules.find((r) => r.event === event), 0 without a rule.
RECURSIVE getRate(_, _)
getRate(commissionRules, event) ==
    IF commissionRules = <<>> THEN 0
    ELSE IF Head(commissionRules).event = event THEN Head(commissionRules).rate
    ELSE getRate(Tail(commissionRules), event)

MetricValue(viewMode, commissionRules, key, count) ==
    IF viewMode = "count" THEN count ELSE count * getRate(commissionRules, key)

\* The keys whose values are added to the totals of a point.
TotalledKeys_LinkClicksToo(eventCounts) == DOMAIN eventCounts

TotalledKeys(eventCounts) == DOMAIN eventCounts \ {s_link_click}

RECURSIVE TotalMetric(_, _, _, _)
TotalMetric(viewMode, commissionRules, eventCounts, keys) ==
    IF keys = {} THEN 0
    ELSE LET key == CHOOSE key \in keys : TRUE IN
         MetricValue(viewMode, commissionRules, key, eventCounts[key])
         + TotalMetric(viewMode, commissionRules, eventCounts, keys \ {key})

FlatNode(viewMode, commissionRules, allEvents, d) ==
    [date |-> d.date,
     values |-> [key \in allEvents |->
                    IF key \in DOMAIN d.eventCounts
                    THEN MetricValue(viewMode, commissionRules, key,
                                     d.eventCounts[key])
                    ELSE 0],
     total_metric |-> TotalMetric(viewMode, commissionRules, d.eventCounts,
                                  TotalledKeys(d.eventCounts))]

RECURSIVE filteredTimeData(_, _, _)
filteredTimeData(timeSeriesPoints, startDate, endDate) ==
    IF timeSeriesPoints = <<>> THEN <<>>
    ELSE LET d == Head(timeSeriesPoints)
             rest == filteredTimeData(Tail(timeSeriesPoints), startDate, endDate)
         IN IF d.date >= startDate /\ d.date <= endDate THEN <<d>> \o rest
            ELSE rest

flatData(viewMode, commissionRules, timeSeriesPoints, startDate, endDate) ==
    LET allEvents == uniqueEvents(timeSeriesPoints)
        filtered == filteredTimeData(timeSeriesPoints, startDate, endDate)
    IN [i \in DOMAIN filtered |->
           FlatNode(viewMode, commissionRules, allEvents, filtered[i])]

(***************************************************************************)
(* UserDetailView: the earnings shown for one referred user, from the      *)
(* user's events and the commission rules of the code.                     *)
(***************************************************************************)
getRateForEvent(commissionConfig, periodType) ==
    IF periodType = "TRIAL" THEN getRate(commissionConfig, s_free_trial)
    ELSE IF periodType = "NORMAL" THEN getRate(commissionConfig, s_purchase)
    ELSE 0

UserEarningsStep(commissionConfig, acc, event) ==
    IF event.type = "INITIAL_PURCHASE"
    THEN LET rate == getRateForEvent(commissionConfig, event.period_type) IN
         IF event.period_type = "TRIAL"
         THEN [acc EXCEPT !.fromTrials = @ + rate]
         ELSE IF event.period_type = "NORMAL"
         THEN [acc EXCEPT !.fromPaid = @ + rate]
         ELSE acc
    ELSE acc

RECURSIVE UserEarningsFold(_, _, _)
UserEarningsFold(commissionConfig, acc, events) ==
    IF events = <<>> THEN acc
    ELSE UserEarningsFold(commissionConfig,
                          UserEarningsStep(commissionConfig, acc, Head(events)),
                          Tail(events))

userEarnings(commissionConfig, events) ==
    UserEarningsFold(commissionConfig, [fromTrials |-> 0, fromPaid |-> 0], events)

(***************************************************************************)
(* parsePurchaseEvents.  A JSON text is a sequence of tokens: "[", "]",    *)
(* ",", "E" (the text of an object with every field of a purchase event),  *)
(* "O" (the text of another object), "0" (a number, a string, a boolean or *)
(* null) and "x" (anything that is not JSON).  A parsed value is an        *)
(* object, a primitive or an array of values.                              *)
(***************************************************************************)
JsonObject(like) == [kind |-> "object", like |-> like]
JsonPrimitive == [kind |-> "primitive"]
JsonArray(items) == [kind |-> "array", items |-> items]

ParseFailure == [ok |-> FALSE]
Parsed(value, next) == [ok |-> TRUE, value |-> value, next |-> next]

\* The value that starts at token i of the text, and the place after it.
RECURSIVE ParseValue(_, _)
RECURSIVE ParseItems(_, _, _)
ParseValue(text, i) ==
    IF i > Len(text) THEN ParseFailure
    ELSE IF text[i] = "E" THEN Parsed(JsonObject(TRUE), i + 1)
    ELSE IF text[i] = "O" THEN Parsed(JsonObject(FALSE), i + 1)
    ELSE IF text[i] = "0" THEN Parsed(JsonPrimitive, i + 1)
    ELSE IF text[i] = "["
         THEN IF i + 1 <= Len(text) /\ text[i + 1] = "]"
              THEN Parsed(JsonArray(<<>>), i + 2)
              ELSE ParseItems(text, i + 1, <<>>)
    ELSE ParseFailure

ParseItems(text, i, items) ==
    LET item == ParseValue(text, i) IN
    IF ~item.ok \/ item.next > Len(text) THEN ParseFailure
    ELSE IF text[item.next] = ","
         THEN ParseItems(text, item.next + 1, Append(items, item.value))
    ELSE IF text[item.next] = "]"
         THEN Parsed(JsonArray(Append(items, item.value)), item.next + 1)
    ELSE ParseFailure

\* JSON.parse: the value of the whole text, or a SyntaxError thrown.
JSONParse(text) ==
    LET parsed == ParseValue(text, 1)
    IN IF parsed.ok /\ parsed.next = Len(text) + 1
       THEN [threw |-> FALSE, value |-> parsed.value]
       ELSE [threw |-> TRUE]

isRecord(value) == value.kind \in {"object", "array"}

\* An array has none of the fields of a purchase event.
isPurchaseEventLike(value) ==
    isRecord(value) /\ value.kind = "object" /\ value.like

\* What a call gives back: a list returned, or an exception thrown.
Returned(events) == [threw |-> FALSE, value |-> events]
Thrown == [threw |-> TRUE, value |-> <<>>]

\* record.event is an array (in memory), a string or something else.
EventArray(items) == [type |-> "array", items |-> items]
EventString(text) == [type |-> "string", text |-> text]
EventOther == [type |-> "other"]

parsePurchaseEvents_NoCatch(record) ==
    IF record.event.type = "array"
    THEN Returned(SelectSeq(record.event.items, isPurchaseEventLike))
    ELSE IF record.event.type = "string"
    THEN LET parsed == JSONParse(record.event.text) IN
         IF parsed.threw THEN Thrown
         ELSE IF parsed.value.kind = "array"
         THEN Returned(SelectSeq(parsed.value.items, isPurchaseEventLike))
         ELSE Returned(IF isPurchaseEventLike(parsed.value)
                       THEN <<parsed.value>> ELSE <<>>)
    ELSE Returned(<<>>)

parsePurchaseEvents(record) ==
    IF record.event.type = "array"
    THEN Returned(SelectSeq(record.event.items, isPurchaseEventLike))
    ELSE IF record.event.type = "string"
    THEN LET parsed == JSONParse(record.event.text) IN
         IF parsed.threw THEN Returned(<<>>)
         ELSE IF parsed.value.kind = "array"
         THEN Returned(SelectSeq(parsed.value.items, isPurchaseEventLike))
         ELSE Returned(IF isPurchaseEventLike(parsed.value)
                       THEN <<parsed.value>> ELSE <<>>)
    ELSE Returned(<<>>)

\* frontend/src/utils/purchaseHistory.ts: the same without the filter.
frontendParsePurchaseEvents(record) ==
    IF record.event.type = "array"
    THEN Returned(record.event.items)
    ELSE IF record.event.type = "string"
    THEN LET parsed == JSONParse(record.event.text) IN
         IF parsed.threw THEN Returned(<<>>)
         ELSE IF parsed.value.kind = "array"
         THEN Returned(parsed.value.items)
         ELSE Returned(<<parsed.value>>)
    ELSE Returned(<<>>)

(***************************************************************************)
(* Objects shared between calls.  getCommissionRates returns the module's  *)
(* DEFAULT_COMMISSION_RATES object itself, and the list of codes and the   *)
(* union map are handed to every computation by reference.  None of the    *)
(* functions assigns to a property of them: filterByReferralCodes returns  *)
(* allCodes or a new array, the builders fill maps of their own.           *)
(***************************************************************************)
DEFAULT_COMMISSION_RATES == CommissionRate(2000, 10000, "USD")

getCommissionRates(mem) == mem.rates

\* The filter done in place on the list it is handed.
InputsAfterFilter_InPlace(mem, selectedCodes) ==
    [mem EXCEPT !.referralCodes = filterByReferralCodes(@, selectedCodes)]

InputsAfterFilter(mem, selectedCodes) == mem

\* A computation over the selected codes: the totals, the time series, or
\* the earnings of the totals at the default rates.
SubsetResult(call, env, mem, selectedCodes) ==
    LET filtered == filterByReferralCodes(mem.referralCodes, selectedCodes)
        totals == aggregateGlobalTotals(filtered, mem.unionMap)
    IN IF call = "aggregateGlobalTotals" THEN totals
       ELSE IF call = "generateTimeSeriesFromEnrichedEvents"
       THEN generateTimeSeriesFromEnrichedEvents(env, filtered, mem.unionMap,
                                                 Given(0), Given(MaxDay))
       ELSE calculateEarnings(MapGet(totals, s_free_trial, 0),
                              MapGet(totals, s_purchase, 0),
                              getCommissionRates(mem))

(***************************************************************************)
(* AuthContext.login.  The provider's state is the user and the user kept  *)
(* in local storage; a response of affiliateLogin or getAffiliateUser is   *)
(* a rejection or an answer with success and, possibly empty, name and     *)
(* email.  login gives the state it leaves, the promise's outcome and the  *)
(* number of getAffiliateUser calls it made.                               *)
(***************************************************************************)
MaxAttempts == 3

AuthUser(name, email) == [name |-> name, email |-> email]

\* user = null, and no user in local storage.
NoUser == <<>>

ApiAnswer(success, name, email) ==
    [rejected |-> FALSE, success |-> success, name |-> name, email |-> email]

ApiRejection ==
    [rejected |-> TRUE, success |-> FALSE, name |-> "", email |-> ""]

\* response.success && response.name && response.email
HasUserDetails(response) ==
    response.success /\ response.name # "" /\ response.email # ""

\* setUser(authUser); saveUserToStorage(authUser); return { success: true }
CompleteLogin(response, attempts) ==
    LET authUser == AuthUser(response.name, response.email)
    IN [threw |-> FALSE, success |-> TRUE, user |-> Given(authUser),
        storedUser |-> Given(authUser), attempts |-> attempts]

LoginFailed(auth, attempts) ==
    [threw |-> FALSE, success |-> FALSE, user |-> auth.user,
     storedUser |-> auth.storedUser, attempts |-> attempts]

\* The retry loop: a rejected call and an answer without user details both
\* go on to the next attempt.
RECURSIVE FetchUser(_, _, _)
FetchUser(auth, meResponses, attempt) ==
    IF attempt >= MaxAttempts THEN LoginFailed(auth, attempt)
    ELSE LET me == meResponses[attempt + 1] IN
         IF ~me.rejected /\ HasUserDetails(me)
         THEN CompleteLogin(me, attempt + 1)
         ELSE FetchUser(auth, meResponses, attempt + 1)

\* Without the outer catch a rejection of affiliateLogin leaves the function.
login_NoCatch(auth, response, meResponses) ==
    IF response.rejected
    THEN [threw |-> TRUE, success |-> FALSE, user |-> auth.user,
          storedUser |-> auth.storedUser, attempts |-> 0]
    ELSE IF HasUserDetails(response) THEN CompleteLogin(response, 0)
    ELSE IF response.success THEN FetchUser(auth, meResponses, 0)
    ELSE LoginFailed(auth, 0)

login(auth, response, meResponses) ==
    IF response.rejected THEN LoginFailed(auth, 0)
    ELSE IF HasUserDetails(response) THEN CompleteLogin(response, 0)
    ELSE IF response.success THEN FetchUser(auth, meResponses, 0)
    ELSE LoginFailed(auth, 0)

(***************************************************************************)
(* The useReferralData hook (frontend/src/hooks/useReferralData.ts).  A    *)
(* refresh is one run of fetchData: it issues the referral-code request    *)
(* and the purchase-history request, and each response is handled by the   *)
(* continuation of fetchCodes or fetchHistory.  What a handler commits is  *)
(* a function of its response only, so a committed value is named by the   *)
(* refresh whose response it was computed from.                            *)
(***************************************************************************)
Refreshes == 1..MaxRefreshes

\* The responses a request can get: success with data, success = false (or
\* no data), and a rejected promise.
Outcomes == {"succeeded", "unsuccessful", "rejected"}

\* useState([]), useState(createEmptyDashboardStats("USD")), useState([]).
InitialData == [refresh |-> 0, users |-> FALSE]

\* transformReferralCodes(response.data) and calculateDashboardStats of it.
CodesOf(r) == [refresh |-> r, users |-> TRUE]

\* buildTimeSeriesFromUsers(allUsers): allUsers holds the users of the
\* response, or nothing when the response has success = false or no data.
SeriesOf(r, outcome) == [refresh |-> r, users |-> outcome = "succeeded"]

\* fetchCodes after its await: the error state it leaves.
ErrorAfterCodes_Swallowed(outcome, err) == err

ErrorAfterCodes(outcome, err) ==
    IF outcome = "succeeded" THEN err
    ELSE IF outcome = "unsuccessful" THEN "Failed to fetch referral codes"
    ELSE "Failed to load data"

\* The finally block of fetchCodes and of fetchHistory.
LoadingAfter_StuckOnThrow(outcome, loading) ==
    IF outcome = "rejected" THEN loading ELSE FALSE

LoadingAfter(outcome, loading) == FALSE

(***************************************************************************)
(* The calls.  Every function is re-run from scratch on each data refresh: *)
(* a call starts from the idle state and Return goes back to it.           *)
(***************************************************************************)
Init ==
    /\ op = "init"
    /\ args = <<>>
    /\ res = <<>>
    /\ hookReferralCodes = InitialData
    /\ hookStats = InitialData
    /\ timeSeriesData = InitialData
    /\ loadingCodes = TRUE
    /\ loadingHistory = TRUE
    /\ error = Null
    /\ codesRequest = [r \in Refreshes |-> "not issued"]
    /\ historyRequest = [r \in Refreshes |-> "not issued"]
    /\ memory = [rates |-> DEFAULT_COMMISSION_RATES, referralCodes |-> <<>>,
                 unionMap |-> <<>>]

Classify ==
    /\ op = "init"
    /\ UNCHANGED <<hookVars, memory>>
    /\ \E event \in AllPurchaseEvents :
           /\ op' = "trialVsPurchaseIdentifier"
           /\ args' = event
           /\ res' = trialVsPurchaseIdentifier(event)

CountConversions ==
    /\ op = "init"
    /\ UNCHANGED <<hookVars, memory>>
    /\ \E events \in SeqsUpTo(EventKinds, MaxEvents) :
           /\ op' = "countConversionsFromEvents"
           /\ args' = events
           /\ res' = countConversionsFromEvents(events)

FrontendCountConversions ==
    /\ op = "init"
    /\ UNCHANGED <<hookVars, memory>>
    /\ \E events \in SeqsUpTo(EventKinds, MaxEvents) :
           /\ op' = "frontend.countConversionsFromEvents"
           /\ args' = events
           /\ res' = frontendCountConversionsFromEvents(events)

CountMultipleUsers ==
    /\ op = "init"
    /\ UNCHANGED <<hookVars, memory>>
    /\ \E usersEvents \in SeqsUpTo(SeqsUpTo(UserEventKinds, MaxUserEvents), MaxUsers) :
           /\ op' = "countConversionsFromMultipleUsers"
           /\ args' = usersEvents
           /\ res' = countConversionsFromMultipleUsers(usersEvents)

(***************************************************************************)
(* Inputs of the union-map builders and of the aggregation.  Referral      *)
(* codes are unique, so the i-th code of a list carries the i-th name.     *)
(***************************************************************************)
CodeNames == <<"SUMMER", "WINTER", "SPRING", "AUTUMN", "EASTER", "LEAP">>

EnrichedEvent(name, displayName, count, timestamps) ==
    [commission_event_name |-> name, display_name |-> displayName,
     count |-> count, timestamps |-> timestamps]

CommissionRule(event, displayName) == [event |-> event, display_name |-> displayName]

UnionEventKinds ==
    { EnrichedEvent(s_purchase, d_Paid, 1, <<>>),
      EnrichedEvent(s_purchase, d_Gold, 2, <<>>),
      EnrichedEvent(s_3_meals_logged, d_Gold, 1, <<>>) }

UnionConfigKinds ==
    { CommissionRule(s_3_meals_logged, NoDisplayName),
      CommissionRule(s_3_meals_logged, d_Gold),
      CommissionRule(s_RENEWAL, NoDisplayName) }

LegacyConfigKinds ==
    { CommissionRule(s_3_meals_logged, NoDisplayName),
      CommissionRule(s_free_trial, d_Gold) }

LegacyEventKinds ==
    { EnrichedEvent(s_3_meals_logged, d_Paid, 1, <<>>),
      EnrichedEvent(s_free_trial, d_Paid, 1, <<>>) }

EnrichedCodeLists(kinds, maxCodes, maxEvents) ==
    { [i \in DOMAIN evs |-> [code |-> CodeNames[i], events |-> evs[i]]] :
        evs \in SeqsUpTo(SeqsUpTo(kinds, maxEvents), maxCodes) }

LegacyCodes ==
    [commissionConfig : SeqsUpTo(LegacyConfigKinds, MaxLegacyItems),
     hasEvents : {TRUE},
     events : SeqsUpTo(LegacyEventKinds, MaxLegacyItems)]
    \cup
    [commissionConfig : SeqsUpTo(LegacyConfigKinds, MaxLegacyItems),
     hasEvents : {FALSE},
     events : {<<>>}]

\* The selections tried on a list of n codes: none, each single code, all
\* of them, and a name no code carries.
Selections(n) ==
    {<<>>, <<"NOSUCHCODE">>, [i \in 1..n |-> CodeNames[i]]}
    \cup {<<CodeNames[i]>> : i \in 1..n}

BuildUnion ==
    /\ op = "init"
    /\ UNCHANGED <<hookVars, memory>>
    /\ \E referralCodes \in EnrichedCodeLists(UnionEventKinds, MaxCodes, MaxCodeEvents) :
           /\ op' = "buildEventUnionMap"
           /\ args' = referralCodes
           /\ res' = buildEventUnionMap(referralCodes)

BuildUnionFromConfigs ==
    /\ op = "init"
    /\ UNCHANGED <<hookVars, memory>>
    /\ \E commissionConfigs \in
              SeqsUpTo(SeqsUpTo(UnionConfigKinds, MaxCodeEvents), MaxCodes) :
           /\ op' = "buildEventUnionMapFromCommissionConfigs"
           /\ args' = commissionConfigs
           /\ res' = buildEventUnionMapFromCommissionConfigs(commissionConfigs)

BuildUnionFromLegacy ==
    /\ op = "init"
    /\ UNCHANGED <<hookVars, memory>>
    /\ \E codes \in SeqsUpTo(LegacyCodes, MaxLegacyCodes) :
           /\ op' = "buildEventUnionMapFromLegacy"
           /\ args' = codes
           /\ res' = buildEventUnionMapFromLegacy(codes)

\* The dashboard's use: the union map is built from all codes, the codes
\* are filtered by the selection and aggregated against that union map.
FilterAndAggregate ==
    /\ op = "init"
    /\ UNCHANGED <<hookVars, memory>>
    /\ \E allCodes \in EnrichedCodeLists(UnionEventKinds, MaxLegacyCodes, MaxLegacyItems) :
       \E selectedCodes \in Selections(Len(allCodes)) :
           LET unionMap == buildEventUnionMap(allCodes)
               filtered == filterByReferralCodes(allCodes, selectedCodes)
           IN /\ op' = "aggregateGlobalTotals"
              /\ args' = [allCodes |-> allCodes, selectedCodes |-> selectedCodes]
              /\ res' = [unionMap |-> unionMap,
                         filtered |-> filtered,
                         totals |-> aggregateGlobalTotals(filtered, unionMap)]

(***************************************************************************)
(* Inputs of the time-series builders.  The environment of a call is the   *)
(* browser's time zone and clock.                                          *)
(***************************************************************************)
TZ(before, at, after) == [before |-> before, at |-> at, after |-> after]

UTC == TZ(0, 0, 0)

\* UTC; a fixed zone west of Greenwich; a zone that goes from UTC-5 to
\* UTC-4 at 02:00 local time of day 1 and one that goes back from UTC-4 to
\* UTC-5 at 02:00 local time of day 1.
TimeZones ==
    { UTC,
      TZ(0 - 5, 0, 0 - 5),
      TZ(0 - 5, HoursPerDay + 7, 0 - 4),
      TZ(0 - 4, HoursPerDay + 6, 0 - 5) }

\* UTC; a zone that went from UTC+1 to UTC+2 ten days before today and one
\* that went back from UTC+2 to UTC+1 then.
RecentTransitionZones ==
    { UTC,
      TZ(1, HoursPerDay * (Today - 10) + 1, 2),
      TZ(2, HoursPerDay * (Today - 10) + 1, 1) }

Noon == HoursPerDay * Today + 12

\* The first and the last hour of today (UTC).
NowChoices == {HoursPerDay * Today, HoursPerDay * Today + 23}

EventDays == 0..MaxDay
RangeDays == 0..(MaxDay + 1)

Timestamps == {Timestamp(d, 9) : d \in EventDays}

SeriesUnionMaps ==
    { <<MapEntry(s_free_trial, d_Gold), MapEntry(s_purchase, d_Paid)>>,
      <<MapEntry(s_purchase, d_Paid)>> }

\* Two codes with one enriched event each, the second event with at most
\* one timestamp, or no code at all.
EnrichedSeriesInputs ==
    { << [code |-> CodeNames[1],
          events |-> <<EnrichedEvent(s_purchase, d_Paid, Len(ts1), ts1)>>],
         [code |-> CodeNames[2],
          events |-> <<EnrichedEvent(name2, d_Gold, Len(ts2), ts2)>>] >> :
        ts1 \in SeqsUpTo(Timestamps, MaxTimestamps),
        ts2 \in SeqsUpTo(Timestamps, 1),
        name2 \in {s_purchase, s_free_trial, s_3_meals_logged} }
    \cup {<<>>}

ExplicitRanges == {<<Given(s), Given(e)>> : s \in RangeDays, e \in RangeDays}

DefaultedRanges ==
    {<<NoDate, NoDate>>}
    \cup {<<NoDate, Given(e)>> : e \in RangeDays}
    \cup {<<Given(s), NoDate>> : s \in RangeDays}

LegacyRanges ==
    {<<Given(0), Given(e)>> : e \in RangeDays} \cup {<<NoDate, NoDate>>}

LegacyUserEvent(type, date) == [type |-> type, date |-> date]

LegacyUserEventKinds ==
    {LegacyUserEvent(s_purchase, Given(Timestamp(d, 9))) : d \in EventDays}
    \cup { LegacyUserEvent(s_free_trial, Given(Timestamp(0, 9))),
           LegacyUserEvent(s_purchase, NoDate) }

\* A referred user of a code: the date the referral was created, when the
\* backend gives one, and the user's events.
LegacyUser(referralCreatedAt, events) ==
    [referralCreatedAt |-> referralCreatedAt, events |-> events]

\* The first code has one user and no events list, an empty one or one
\* enriched event; a second code, when there is one, has no events list
\* and one user with a purchase on day 1.
\* The stats object of a code that agrees with its users: for each event
\* name, the number of the users' dated events of that name.
DatedEvents(users, name) ==
    { <<u, k>> \in UNION { {u} \X DOMAIN users[u].events : u \in DOMAIN users } :
        users[u].events[k].type = name /\ users[u].events[k].date # NoDate }

StatsOfUsers(users) ==
    [name \in { n \in {s_signup, s_free_trial, s_purchase} :
                  DatedEvents(users, n) # {} } |->
        Cardinality(DatedEvents(users, name))]

LegacyCode(referralCode, hasEvents, events, codeStats, users) ==
    [referralCode |-> referralCode, commissionConfig |-> <<>>,
     hasEvents |-> hasEvents, events |-> events, stats |-> codeStats,
     users |-> users]

LegacySeriesInputs ==
    { <<LegacyCode(CodeNames[1], ev[1], ev[2],
                   IF withStats THEN StatsOfUsers(<<LegacyUser(created, userEvents)>>)
                   ELSE <<>>,
                   <<LegacyUser(created, userEvents)>>)>> \o second :
        ev \in { <<FALSE, <<>> >>, <<TRUE, <<>> >>,
                 <<TRUE, <<EnrichedEvent(s_purchase, d_Paid, 1,
                                         <<Timestamp(1, 9)>>)>> >> },
        created \in {NoDate, Given(Timestamp(1, 9))},
        withStats \in BOOLEAN,
        userEvents \in SeqsUpTo(LegacyUserEventKinds, MaxUserEvents),
        second \in { <<>>,
                     <<LegacyCode(CodeNames[2], FALSE, <<>>,
                                  s_purchase :> 1,
                                  <<LegacyUser(NoDate,
                                      <<LegacyUserEvent(s_purchase,
                                          Given(Timestamp(1, 9)))>>)>>)>> } }

TimedPurchase(type, period, instant) ==
    [type |-> type, period_type |-> period, purchased_at_ms |-> instant]

TimedPurchaseKinds ==
    {TimedPurchase("INITIAL_PURCHASE", "NORMAL", ParseDate(d) + 9) : d \in EventDays}
    \cup { TimedPurchase("INITIAL_PURCHASE", "TRIAL", ParseDate(0) + 9),
           TimedPurchase("RENEWAL", "NORMAL", ParseDate(1) + 9) }

SeriesCall(name, env, input, unionMap, range, result) ==
    /\ op' = name
    /\ args' = [env |-> env, input |-> input, unionMap |-> unionMap,
                startDate |-> range[1], endDate |-> range[2]]
    /\ res' = result

\* generateTimeSeriesFromEnrichedEvents with both ends of the range given.
SeriesEnriched ==
    /\ op = "init"
    /\ UNCHANGED <<hookVars, memory>>
    /\ \E tz \in TimeZones, range \in ExplicitRanges,
          referralCodes \in EnrichedSeriesInputs, unionMap \in SeriesUnionMaps :
           LET env == [tz |-> tz, now |-> Noon]
           IN SeriesCall("generateTimeSeriesFromEnrichedEvents", env,
                         referralCodes, unionMap, range,
                         generateTimeSeriesFromEnrichedEvents(
                             env, referralCodes, unionMap, range[1], range[2]))

\* generateTimeSeriesFromEnrichedEvents with an end of the range left out.
SeriesEnrichedDefaulted ==
    /\ op = "init"
    /\ UNCHANGED <<hookVars, memory>>
    /\ \E tz \in RecentTransitionZones, now \in NowChoices, range \in DefaultedRanges,
          referralCodes \in EnrichedSeriesInputs :
           LET env == [tz |-> tz, now |-> now]
               unionMap == <<MapEntry(s_free_trial, d_Gold), MapEntry(s_purchase, d_Paid)>>
           IN SeriesCall("generateTimeSeriesFromEnrichedEvents", env,
                         referralCodes, unionMap, range,
                         generateTimeSeriesFromEnrichedEvents(
                             env, referralCodes, unionMap, range[1], range[2]))

SeriesLegacy ==
    /\ op = "init"
    /\ UNCHANGED <<hookVars, memory>>
    /\ \E tz \in TimeZones \ {UTC}, range \in LegacyRanges,
          codes \in LegacySeriesInputs :
           LET env == [tz |-> tz, now |-> Noon]
               unionMap == <<MapEntry(s_signup, d_Signup),
                             MapEntry(s_free_trial, d_Gold),
                             MapEntry(s_purchase, d_Paid)>>
           IN SeriesCall("generateTimeSeriesFromLegacyHistory", env,
                         codes, unionMap, range,
                         generateTimeSeriesFromLegacyHistory(
                             env, codes, unionMap, range[1], range[2]))

AggregateLegacy ==
    /\ op = "init"
    /\ UNCHANGED <<hookVars, memory>>
    /\ \E codes \in LegacySeriesInputs :
           LET unionMap == <<MapEntry(s_signup, d_Signup),
                             MapEntry(s_free_trial, d_Gold),
                             MapEntry(s_purchase, d_Paid)>>
           IN /\ op' = "aggregateGlobalTotalsFromLegacy"
              /\ args' = [input |-> codes, unionMap |-> unionMap]
              /\ res' = aggregateGlobalTotalsFromLegacy(codes, unionMap)

\* generateTimeSeriesWithDateRange over the events of one user.
SeriesWithDateRange ==
    /\ op = "init"
    /\ UNCHANGED <<hookVars, memory>>
    /\ \E tz \in TimeZones, start \in RangeDays,
          endDate \in {NoDate} \cup {Given(e) : e \in RangeDays},
          events \in SeqsUpTo(TimedPurchaseKinds, MaxUserEvents) :
           LET env == [tz |-> tz, now |-> Noon]
           IN SeriesCall("generateTimeSeriesWithDateRange", env,
                         events, <<>>, <<Given(start), endDate>>,
                         generateTimeSeriesWithDateRange(env, events, start, endDate))

\* The commission rules of a code: none, or a rate for each category.
UserRules ==
    { <<>>,
      <<EarningsRule(s_free_trial, 2000, "USD"),
        EarningsRule(s_purchase, 10125, "USD")>> }

\* UserDetailView rendered for a user with the given events.
UserDetailView ==
    /\ op = "init"
    /\ UNCHANGED <<hookVars, memory>>
    /\ \E events \in SeqsUpTo(EventKinds, MaxEvents),
          commissionConfig \in UserRules :
           /\ op' = "UserDetailView"
           /\ args' = [events |-> events, commissionConfig |-> commissionConfig]
           /\ res' = userEarnings(commissionConfig, events)

Return ==
    /\ op # "init"
    /\ UNCHANGED <<hookVars, memory>>
    /\ op' = "init"
    /\ args' = <<>>
    /\ res' = <<>>

Next ==
    \/ Return
    \/ Classify
    \/ CountConversions
    \/ FrontendCountConversions
    \/ CountMultipleUsers
    \/ UserDetailView

Spec == Init /\ [][Next]_vars

NextUnion ==
    \/ Return
    \/ BuildUnion
    \/ BuildUnionFromConfigs
    \/ BuildUnionFromLegacy
    \/ FilterAndAggregate

SpecUnion == Init /\ [][NextUnion]_vars

NextSeries ==
    \/ Return
    \/ SeriesEnriched
    \/ SeriesEnrichedDefaulted
    \/ SeriesLegacy
    \/ AggregateLegacy
    \/ SeriesWithDateRange

SpecSeries == Init /\ [][NextSeries]_vars

(***************************************************************************)
(* Inputs and calls of the earnings and dashboard-statistics functions.    *)
(***************************************************************************)
Counts == 0..MaxCount

\* 0, 2.00, 2.125 and 10.125 per conversion.
RateChoices == {0, 2000, 2125, 10125}

Currencies == {"USD", "EUR"}

CommissionRates ==
    {CommissionRate(t, p, c) : t \in RateChoices, p \in RateChoices, c \in Currencies}

CalculateEarnings ==
    /\ op = "init"
    /\ UNCHANGED <<hookVars, memory>>
    /\ \E trialConversions \in Counts, paidConversions \in Counts,
          rates \in CommissionRates :
           /\ op' = "calculateEarnings"
           /\ args' = [trialConversions |-> trialConversions,
                       paidConversions |-> paidConversions, rates |-> rates]
           /\ res' = calculateEarnings(trialConversions, paidConversions, rates)

\* A transformed code as calculateDashboardStats reads it.
ReferralCode(status, counts, earnings) ==
    [status |-> status,
     referralsCount |-> counts[1],
     trialConversions |-> counts[2],
     paidConversions |-> counts[3],
     conversions |-> counts[2] + counts[3],
     earnings |-> earnings]

Statuses == {"active", "inactive", "exhausted"}

\* No earnings; 2.13 from trials; 2.13 + 2.13 with the total 4.25 that
\* calculateEarnings gives for two rates of 2.125; 1.125 from paid.
EarningsChoices ==
    { NoEarnings,
      Given([fromTrials |-> 2130, fromPaid |-> 0, total |-> 2130, currency |-> "USD"]),
      Given([fromTrials |-> 2130, fromPaid |-> 2130, total |-> 4250, currency |-> "EUR"]),
      Given([fromTrials |-> 0, fromPaid |-> 1125, total |-> 1125, currency |-> "GBP"]) }

ReferralCodeKinds ==
    {ReferralCode(status, counts, earnings) :
        status \in Statuses,
        counts \in {<<0, 0, 0>>, <<1, 2, 1>>},
        earnings \in EarningsChoices}

CalculateDashboardStats ==
    /\ op = "init"
    /\ UNCHANGED <<hookVars, memory>>
    /\ \E referralCodes \in SeqsUpTo(ReferralCodeKinds, MaxStatCodes) :
           /\ op' = "calculateDashboardStats"
           /\ args' = referralCodes
           /\ res' = calculateDashboardStats(referralCodes)

\* A transformed code of the dynamic-category version: the signups are the
\* referrals and the conversions include them.
frontendReferralCode(status, counts, earnings) ==
    [status |-> status,
     referralsCount |-> counts[1],
     signupConversions |-> counts[1],
     trialConversions |-> counts[2],
     paidConversions |-> counts[3],
     conversions |-> counts[1] + counts[2] + counts[3],
     earnings |-> earnings]

\* No earnings; 1.00 from signups and 2.13 from trials; 2.13 from trials and
\* 2.13 from purchases; 1.125 from purchases.
frontendEarningsChoices ==
    { NoEarnings,
      Given([breakdown |-> (s_signup :> 1000 @@ s_free_trial :> 2130),
             total |-> 3130, currency |-> "USD"]),
      Given([breakdown |-> (s_free_trial :> 2130 @@ s_purchase :> 2130),
             total |-> 4260, currency |-> "EUR"]),
      Given([breakdown |-> (s_purchase :> 1125), total |-> 1125, currency |-> "GBP"]) }

frontendReferralCodeKinds ==
    {frontendReferralCode(status, counts, earnings) :
        status \in Statuses,
        counts \in {<<0, 0, 0>>, <<1, 2, 1>>},
        earnings \in frontendEarningsChoices}

FrontendCalculateDashboardStats ==
    /\ op = "init"
    /\ UNCHANGED <<hookVars, memory>>
    /\ \E referralCodes \in SeqsUpTo(frontendReferralCodeKinds, MaxStatCodes) :
           /\ op' = "frontend.calculateDashboardStats"
           /\ args' = referralCodes
           /\ res' = frontendCalculateDashboardStats(referralCodes)

\* A backend code of the fixed-category version: referrals is the length
\* of its referrals list, purchaseNumbers is NoStats or Given([trial, paid]).
BackendReferral(quota, startDate, endDate, referrals, purchaseNumbers) ==
    [quota |-> quota, startDate |-> startDate, endDate |-> endDate,
     referrals |-> referrals, purchaseNumbers |-> purchaseNumbers]

\* A backend code of the dynamic-category version: stats is NoStats or
\* Given([totalReferrals, free_trial, purchase]).
AffiliateReferralCode(quota, startDate, endDate, stats, commissionConfig) ==
    [quota |-> quota, startDate |-> startDate, endDate |-> endDate,
     stats |-> stats, commissionConfig |-> commissionConfig]

\* No quota, 0, 5 and 7.
QuotaChoices == {NoQuota, Given(0), Given(5), Given(7)}

\* No date, yesterday, this very instant, tomorrow.
ScheduleDates ==
    {NoDate, Given(Noon - HoursPerDay), Given(Noon), Given(Noon + HoursPerDay)}

PurchaseNumbers(trial, paid) == Given([trial |-> trial, paid |-> paid])

PurchaseNumbersChoices ==
    {NoStats, PurchaseNumbers(0, 0), PurchaseNumbers(0, 4), PurchaseNumbers(1, 1)}

ReferralCounts == {0, 3}

RatesChoices ==
    { NoRates,
      Given(CommissionRate(2125, 2125, "USD")),
      Given(CommissionRate(2000, 10125, "EUR")) }

CodeStats(totalReferrals, free_trial, purchase) ==
    Given([totalReferrals |-> totalReferrals, free_trial |-> free_trial,
           purchase |-> purchase])

StatsChoices ==
    {NoStats, CodeStats(0, 0, 0), CodeStats(3, 0, 4), CodeStats(1, 1, 1)}

ConfigChoices ==
    { <<>>,
      <<EarningsRule(s_signup, 1000, "USD"), EarningsRule(s_purchase, 2125, "USD")>>,
      <<EarningsRule(s_free_trial, 2125, "EUR"), EarningsRule(s_purchase, 2125, "EUR")>> }

TransformReferralCode ==
    /\ op = "init"
    /\ UNCHANGED <<hookVars, memory>>
    /\ \E quota \in QuotaChoices, startDate \in ScheduleDates, endDate \in ScheduleDates,
          referrals \in ReferralCounts, purchaseNumbers \in PurchaseNumbersChoices,
          commissionRates \in {NoRates, Given(CommissionRate(2125, 2125, "USD"))} :
           LET env == [now |-> Noon]
               backendRef == BackendReferral(quota, startDate, endDate,
                                             referrals, purchaseNumbers)
           IN /\ op' = "transformReferralCode"
              /\ args' = [env |-> env, backendRef |-> backendRef,
                          commissionRates |-> commissionRates]
              /\ res' = transformReferralCode(env, backendRef, commissionRates)

FrontendTransformReferralCode ==
    /\ op = "init"
    /\ UNCHANGED <<hookVars, memory>>
    /\ \E quota \in QuotaChoices, startDate \in ScheduleDates, endDate \in ScheduleDates,
          stats \in StatsChoices, commissionConfig \in ConfigChoices :
           LET env == [now |-> Noon]
               backendRef == AffiliateReferralCode(quota, startDate, endDate,
                                                   stats, commissionConfig)
           IN /\ op' = "frontend.transformReferralCode"
              /\ args' = [env |-> env, backendRef |-> backendRef]
              /\ res' = frontendTransformReferralCode(env, backendRef)

\* fetchCodes: the backend's codes are transformed and the statistics are
\* computed from the transformed codes.
BackendReferralKinds ==
    {BackendReferral(quota, NoDate, endDate, referrals, purchaseNumbers) :
        quota \in {NoQuota, Given(5)},
        endDate \in {NoDate, Given(Noon - HoursPerDay)},
        referrals \in ReferralCounts,
        purchaseNumbers \in {NoStats, PurchaseNumbers(0, 4), PurchaseNumbers(1, 1)}}

AffiliateReferralCodeKinds ==
    {AffiliateReferralCode(quota, NoDate, NoDate, stats, commissionConfig) :
        quota \in {NoQuota, Given(5)},
        stats \in {NoStats, CodeStats(3, 0, 4), CodeStats(1, 1, 1)},
        commissionConfig \in ConfigChoices}

FetchCodes ==
    /\ op = "init"
    /\ UNCHANGED <<hookVars, memory>>
    /\ \E backendRefs \in SeqsUpTo(BackendReferralKinds, MaxStatCodes),
          commissionRates \in RatesChoices :
           LET env == [now |-> Noon]
               transformedCodes == transformReferralCodes(env, backendRefs,
                                                          commissionRates)
           IN /\ op' = "fetchCodes"
              /\ args' = [env |-> env, backendRefs |-> backendRefs,
                          commissionRates |-> commissionRates]
              /\ res' = [referralCodes |-> transformedCodes,
                         stats |-> calculateDashboardStats(transformedCodes)]

FrontendFetchCodes ==
    /\ op = "init"
    /\ UNCHANGED <<hookVars, memory>>
    /\ \E backendRefs \in SeqsUpTo(AffiliateReferralCodeKinds, MaxStatCodes) :
           LET env == [now |-> Noon]
               transformedCodes == frontendTransformReferralCodes(env, backendRefs)
           IN /\ op' = "frontend.fetchCodes"
              /\ args' = [env |-> env, backendRefs |-> backendRefs]
              /\ res' = [referralCodes |-> transformedCodes,
                         stats |-> frontendCalculateDashboardStats(transformedCodes)]

\* PerformanceCharts rendered over a time series of at most two points.
ChartEventCounts ==
    UNION { [keys -> 1..2] : keys \in SUBSET {s_signup, s_purchase, s_link_click} }

ChartSeries ==
    { [i \in DOMAIN counts |-> [date |-> i - 1, eventCounts |-> counts[i]]] :
        counts \in SeqsUpTo(ChartEventCounts, MaxDay) }

RenderCharts ==
    /\ op = "init"
    /\ UNCHANGED <<hookVars, memory>>
    /\ \E viewMode \in {"count", "earnings"}, commissionRules \in ConfigChoices,
          timeSeriesPoints \in ChartSeries, startDate \in 0..1 :
           /\ op' = "PerformanceCharts"
           /\ args' = [viewMode |-> viewMode, commissionRules |-> commissionRules,
                       timeSeriesData |-> timeSeriesPoints,
                       startDate |-> startDate, endDate |-> MaxDay]
           /\ res' = flatData(viewMode, commissionRules, timeSeriesPoints,
                              startDate, MaxDay)

NextStats ==
    \/ Return
    \/ CalculateEarnings
    \/ TransformReferralCode
    \/ FrontendTransformReferralCode
    \/ FetchCodes
    \/ FrontendFetchCodes
    \/ FrontendCalculateDashboardStats
    \/ CalculateDashboardStats
    \/ RenderCharts

SpecStats == Init /\ [][NextStats]_vars

(***************************************************************************)
(* Inputs and calls of parsePurchaseEvents.                                *)
(***************************************************************************)
JsonTokens == {"[", "]", ",", "E", "O", "0", "x"}

JsonTexts == SeqsUpTo(JsonTokens, MaxTokens)

InMemoryItems == {JsonObject(TRUE), JsonObject(FALSE), JsonPrimitive}

RecordEvents ==
    {EventString(text) : text \in JsonTexts}
    \cup {EventArray(items) : items \in SeqsUpTo(InMemoryItems, MaxItems)}
    \cup {EventOther}

PurchaseHistoryRecord(event) == [event |-> event]

ParsePurchaseEvents ==
    /\ op = "init"
    /\ UNCHANGED <<hookVars, memory>>
    /\ \E event \in RecordEvents :
           /\ op' = "parsePurchaseEvents"
           /\ args' = PurchaseHistoryRecord(event)
           /\ res' = parsePurchaseEvents(PurchaseHistoryRecord(event))

FrontendParsePurchaseEvents ==
    /\ op = "init"
    /\ UNCHANGED <<hookVars, memory>>
    /\ \E event \in RecordEvents :
           /\ op' = "frontend.parsePurchaseEvents"
           /\ args' = PurchaseHistoryRecord(event)
           /\ res' = frontendParsePurchaseEvents(PurchaseHistoryRecord(event))

NextParse ==
    \/ Return
    \/ ParsePurchaseEvents
    \/ FrontendParsePurchaseEvents

SpecParse == Init /\ [][NextParse]_vars

\* A call of login: the state before it, the response of affiliateLogin and
\* the responses the getAffiliateUser calls would get.
ApiResponses(name, email) ==
    { ApiRejection, ApiAnswer(FALSE, "", ""), ApiAnswer(TRUE, "", ""),
      ApiAnswer(TRUE, name, ""), ApiAnswer(TRUE, name, email) }

AuthStates ==
    { [user |-> NoUser, storedUser |-> NoUser],
      [user |-> Given(AuthUser("Bob", "bob@example.com")),
       storedUser |-> Given(AuthUser("Bob", "bob@example.com"))] }

Login ==
    /\ op = "init"
    /\ UNCHANGED <<hookVars, memory>>
    /\ \E auth \in AuthStates,
          response \in ApiResponses("Ann", "ann@example.com"),
          meResponses \in [1..MaxAttempts -> ApiResponses("Amy", "amy@example.com")] :
           /\ op' = "login"
           /\ args' = [auth |-> auth, response |-> response,
                       meResponses |-> meResponses]
           /\ res' = login(auth, response, meResponses)

NextAuth ==
    \/ Return
    \/ Login

SpecAuth == Init /\ [][NextAuth]_vars

(***************************************************************************)
(* A session: the codes are loaded and their union map built, then up to   *)
(* MaxCalls computations over subsets of the codes follow, each reading    *)
(* the objects in memory.  args keeps what was loaded, res the calls made  *)
(* and their results.                                                      *)
(***************************************************************************)
SessionEnv == [tz |-> UTC, now |-> Noon]

SessionInputs ==
    { << [code |-> CodeNames[1],
          events |-> <<EnrichedEvent(s_purchase, d_Paid, 1, <<Timestamp(0, 9)>>)>>],
         [code |-> CodeNames[2],
          events |-> <<EnrichedEvent(name2, d_Gold, 1, <<Timestamp(1, 9)>>)>>] >> :
        name2 \in {s_purchase, s_free_trial} }

SessionSelections == {<<>>, <<CodeNames[1]>>, <<CodeNames[2]>>}

SessionCalls ==
    {"aggregateGlobalTotals", "generateTimeSeriesFromEnrichedEvents",
     "calculateEarnings"}

LoadCodes ==
    /\ op = "init"
    /\ \E referralCodes \in SessionInputs :
           LET unionMap == buildEventUnionMap(referralCodes) IN
           /\ op' = "session"
           /\ args' = [referralCodes |-> referralCodes, unionMap |-> unionMap,
                       rates |-> memory.rates]
           /\ res' = <<>>
           /\ memory' = [memory EXCEPT !.referralCodes = referralCodes,
                                       !.unionMap = unionMap]
    /\ UNCHANGED hookVars

ComputeSubset(call) ==
    /\ op = "session"
    /\ Len(res) < MaxCalls
    /\ \E selectedCodes \in SessionSelections :
           /\ res' = Append(res, [call |-> call, selectedCodes |-> selectedCodes,
                                  result |-> SubsetResult(call, SessionEnv, memory,
                                                          selectedCodes)])
           /\ memory' = InputsAfterFilter(memory, selectedCodes)
    /\ UNCHANGED <<op, args, hookVars>>

NextSession ==
    \/ LoadCodes
    \/ \E call \in SessionCalls : ComputeSubset(call)

SpecSession == Init /\ [][NextSession]_vars

(***************************************************************************)
(* The refreshes of the hook.  fetchData runs to the two awaits without    *)
(* interruption; the continuations of fetchCodes and fetchHistory run when *)
(* their responses arrive, in any order and interleaved with later         *)
(* refreshes.  Refresh 1 is the one of the mount effect, the others are    *)
(* calls of refetch.                                                       *)
(***************************************************************************)
FetchData(r) ==
    /\ codesRequest[r] = "not issued"
    /\ \A q \in Refreshes : q < r => codesRequest[q] # "not issued"
    /\ error' = Null
    /\ loadingCodes' = TRUE
    /\ loadingHistory' = TRUE
    /\ codesRequest' = [codesRequest EXCEPT ![r] = "in flight"]
    /\ historyRequest' = [historyRequest EXCEPT ![r] = "in flight"]
    /\ UNCHANGED <<op, args, res, memory, hookReferralCodes, hookStats,
                   timeSeriesData>>

CodesResponse(r) ==
    /\ codesRequest[r] = "in flight"
    /\ \E outcome \in Outcomes :
        /\ codesRequest' = [codesRequest EXCEPT ![r] = outcome]
        /\ hookReferralCodes' = IF outcome = "succeeded" THEN CodesOf(r)
                                ELSE hookReferralCodes
        /\ hookStats' = IF outcome = "succeeded" THEN CodesOf(r)
                        ELSE hookStats
        /\ error' = ErrorAfterCodes(outcome, error)
        /\ loadingCodes' = LoadingAfter(outcome, loadingCodes)
    /\ UNCHANGED <<op, args, res, memory, timeSeriesData, loadingHistory,
                   historyRequest>>

HistoryResponse(r) ==
    /\ historyRequest[r] = "in flight"
    /\ \E outcome \in Outcomes :
        /\ historyRequest' = [historyRequest EXCEPT ![r] = outcome]
        /\ timeSeriesData' = IF outcome = "rejected" THEN timeSeriesData
                             ELSE SeriesOf(r, outcome)
        /\ loadingHistory' = LoadingAfter(outcome, loadingHistory)
    /\ UNCHANGED <<op, args, res, memory, hookReferralCodes, hookStats,
                   loadingCodes, error, codesRequest>>

NextHook ==
    \/ \E r \in Refreshes : FetchData(r)
    \/ \E r \in Refreshes : CodesResponse(r)
    \/ \E r \in Refreshes : HistoryResponse(r)

SpecHook == Init /\ [][NextHook]_vars

\* Every request eventually resolves or rejects.
SpecHookFair ==
    /\ SpecHook
    /\ \A r \in Refreshes : WF_vars(CodesResponse(r))
    /\ \A r \in Refreshes : WF_vars(HistoryResponse(r))

(***************************************************************************)
(* C1: trialVsPurchaseIdentifier depends on (type, period_type) only:      *)
(* INITIAL_PURCHASE with TRIAL gives free_trial, INITIAL_PURCHASE with     *)
(* NORMAL gives purchase, RENEWAL with any period_type gives purchase, and *)
(* every other combination gives null.                                     *)
(***************************************************************************)
ClassifierTable ==
    op = "trialVsPurchaseIdentifier" =>
        /\ res \in {"free_trial", "purchase", Null}
        /\ (res = "free_trial") <=>
               (args.type = "INITIAL_PURCHASE" /\ args.period_type = "TRIAL")
        /\ (res = "purchase") <=>
               \/ args.type = "INITIAL_PURCHASE" /\ args.period_type = "NORMAL"
               \/ args.type = "RENEWAL"
        /\ (args.type \in {"CANCELLATION", "SUBSCRIPTION_PAUSED", "TRANSFER"})
               => res = Null
        /\ (args.type = "INITIAL_PURCHASE" /\ args.period_type \in {"INTRO", Absent})
               => res = Null

ClassifierRenewalAbsentPeriod ==
    /\ op = "trialVsPurchaseIdentifier"
    /\ args.type = "RENEWAL"
    /\ args.period_type = Absent
    /\ res = "purchase"

(***************************************************************************)
(* C2: for a single user's event list in which at least one event          *)
(* classifies to a category, countConversionsFromEvents returns exactly 1  *)
(* for that category, and 0 for a category to which no event classifies,   *)
(* in each version of the function.                                        *)
(***************************************************************************)
HasCategory(events, category) ==
    \E i \in DOMAIN events : trialVsPurchaseIdentifier(events[i]) = category

Flag(b) == IF b THEN 1 ELSE 0

OneTimePerUserAllVersions ==
    op \in {"countConversionsFromEvents", "frontend.countConversionsFromEvents"} =>
        /\ res.trial = Flag(HasCategory(args, "free_trial"))
        /\ res.paid = Flag(HasCategory(args, "purchase"))

(***************************************************************************)
(* C3: the trial flag and the paid flag are decided independently: paid is *)
(* set exactly when some event classifies to purchase (a RENEWAL alone     *)
(* suffices), trial exactly when some event classifies to free_trial,      *)
(* whatever else the list holds and in any order, in each version.         *)
(***************************************************************************)
FlagsIndependentAllVersions ==
    op \in {"countConversionsFromEvents", "frontend.countConversionsFromEvents"} =>
        /\ (res.paid >= 1) <=> HasCategory(args, "purchase")
        /\ (res.trial >= 1) <=> HasCategory(args, "free_trial")

(***************************************************************************)
(* C4: countConversionsFromMultipleUsers returns, for trial and for paid,  *)
(* the number of users whose event list holds at least one event of that   *)
(* category.                                                               *)
(***************************************************************************)
UsersWithCategory(usersEvents, category) ==
    Cardinality({u \in DOMAIN usersEvents : HasCategory(usersEvents[u], category)})

MultipleUsersSumOfFlags ==
    op = "countConversionsFromMultipleUsers" =>
        /\ res.trial = UsersWithCategory(args, "free_trial")
        /\ res.paid = UsersWithCategory(args, "purchase")

\* Two users, the first with two trial events, the second with two renewals.
MultipleUsersRepeatedEvents ==
    /\ op = "countConversionsFromMultipleUsers"
    /\ Len(args) = 2
    /\ args[1] = <<PurchaseEvent("INITIAL_PURCHASE", "TRIAL"),
                   PurchaseEvent("INITIAL_PURCHASE", "TRIAL")>>
    /\ args[2] = <<PurchaseEvent("RENEWAL", "NORMAL"),
                   PurchaseEvent("RENEWAL", "NORMAL")>>
    /\ res = [trial |-> 1, paid |-> 1]

(***************************************************************************)
(* C5: each union-map builder returns a map that holds each distinct event *)
(* name of its input exactly once, in the order of first occurrence in the *)
(* scan, with the display name and purchase-type flag of that first        *)
(* occurrence; later occurrences change nothing.                           *)
(***************************************************************************)
\* What formatEventNameForDisplay is documented to give for the names used.
ExpectedFallbackName(name) ==
    CASE name = s_3_meals_logged ->
           <<"3", " ", "M", "e", "a", "l", "s", " ", "L", "o", "g", "g", "e", "d">>
      [] name = s_free_trial -> <<"F", "r", "e", "e", " ", "T", "r", "i", "a", "l">>
      [] name = s_purchase -> <<"P", "u", "r", "c", "h", "a", "s", "e">>
      [] name = s_RENEWAL -> s_RENEWAL

ExpectedPurchaseType(name) == name \in {s_purchase, s_free_trial, s_RENEWAL}

Occurrence(name, displayName) == [name |-> name, displayName |-> displayName]

EventOccurrences(events) ==
    [i \in DOMAIN events |->
        Occurrence(events[i].commission_event_name, events[i].display_name)]

ConfigOccurrences(configs) ==
    [i \in DOMAIN configs |->
        Occurrence(configs[i].event,
                   IF configs[i].display_name = NoDisplayName
                   THEN ExpectedFallbackName(configs[i].event)
                   ELSE configs[i].display_name)]

RECURSIVE Concat(_)
Concat(seqs) == IF seqs = <<>> THEN <<>> ELSE Head(seqs) \o Concat(Tail(seqs))

\* The occurrences of event names in the order the builder of the current
\* call scans them.
UnionScan ==
    CASE op = "buildEventUnionMap" ->
           Concat([i \in DOMAIN args |-> EventOccurrences(args[i].events)])
      [] op = "buildEventUnionMapFromCommissionConfigs" ->
           Concat([i \in DOMAIN args |-> ConfigOccurrences(args[i])])
      [] op = "buildEventUnionMapFromLegacy" ->
           Concat([i \in DOMAIN args |->
                     ConfigOccurrences(args[i].commissionConfig)
                     \o EventOccurrences(args[i].events)])

FirstIndex(scan, name) ==
    CHOOSE i \in DOMAIN scan :
        /\ scan[i].name = name
        /\ \A j \in 1..(i - 1) : scan[j].name # name

UnionBuilders ==
    {"buildEventUnionMap", "buildEventUnionMapFromCommissionConfigs",
     "buildEventUnionMapFromLegacy"}

FirstOccurrenceWins ==
    op \in UnionBuilders =>
        LET scan == UnionScan IN
        /\ \A k, l \in DOMAIN res : k # l => res[k].name # res[l].name
        /\ MapKeys(res) = {scan[i].name : i \in DOMAIN scan}
        /\ \A k \in DOMAIN res :
              /\ res[k].displayName = scan[FirstIndex(scan, res[k].name)].displayName
              /\ res[k].isPurchaseType = ExpectedPurchaseType(res[k].name)
        /\ \A k, l \in DOMAIN res :
              k < l => FirstIndex(scan, res[k].name) < FirstIndex(scan, res[l].name)

\* Two codes: the first names free_trial in its rules and then reports
\* 3_meals_logged as "Paid"; the second lists 3_meals_logged without a
\* display name and reports free_trial as "Paid".
LaterOccurrenceIgnored ==
    /\ op = "buildEventUnionMapFromLegacy"
    /\ Len(args) = 2
    /\ args[1].commissionConfig = <<CommissionRule(s_free_trial, d_Gold)>>
    /\ args[1].events = <<EnrichedEvent(s_3_meals_logged, d_Paid, 1, <<>>)>>
    /\ args[2].commissionConfig = <<CommissionRule(s_3_meals_logged, NoDisplayName)>>
    /\ args[2].events = <<EnrichedEvent(s_free_trial, d_Paid, 1, <<>>)>>
    /\ res = << [name |-> s_free_trial, displayName |-> d_Gold,
                 isPurchaseType |-> TRUE],
                [name |-> s_3_meals_logged, displayName |-> d_Paid,
                 isPurchaseType |-> FALSE] >>

(***************************************************************************)
(* C6: with U the union map of the full list, the totals of the filtered   *)
(* list against U have exactly U's event names as keys, and an event that  *)
(* occurs only in codes the selection does not name has total 0.           *)
(***************************************************************************)
SelectedNames == {args.selectedCodes[i] : i \in DOMAIN args.selectedCodes}

CodeHasEvent(code, name) ==
    \E i \in DOMAIN code.events : code.events[i].commission_event_name = name

OnlyInUnselected(name) ==
    \A c \in DOMAIN args.allCodes :
        CodeHasEvent(args.allCodes[c], name) => args.allCodes[c].code \notin SelectedNames

\* The claim as written, for any selection, the empty one included.
FilteredTotalsAnySelection ==
    op = "aggregateGlobalTotals" =>
        /\ DOMAIN res.totals = MapKeys(buildEventUnionMap(args.allCodes))
        /\ \A name \in DOMAIN res.totals : OnlyInUnselected(name) => res.totals[name] = 0

\* Amended: the zero holds for a non-empty selection; an empty selection
\* is no filter and keeps every code.
FilteredTotalsNonEmptySelection ==
    op = "aggregateGlobalTotals" =>
        /\ res.unionMap = buildEventUnionMap(args.allCodes)
        /\ DOMAIN res.totals = MapKeys(res.unionMap)
        /\ args.selectedCodes # <<>> =>
              \A name \in DOMAIN res.totals :
                  OnlyInUnselected(name) => res.totals[name] = 0
        /\ args.selectedCodes = <<>> => res.filtered = args.allCodes

\* WINTER alone is selected and 3_meals_logged occurs in SUMMER only.
UnselectedEventZero ==
    /\ op = "aggregateGlobalTotals"
    /\ Len(args.allCodes) = 2
    /\ args.selectedCodes = <<"WINTER">>
    /\ CodeHasEvent(args.allCodes[1], s_3_meals_logged)
    /\ ~CodeHasEvent(args.allCodes[2], s_3_meals_logged)
    /\ CodeHasEvent(args.allCodes[2], s_purchase)
    /\ res.totals[s_3_meals_logged] = 0
    /\ res.totals[s_purchase] > 0

(***************************************************************************)
(* C7: for an explicit start <= end the builders return exactly            *)
(* (end - start) + 1 points, one for each day of [start, end], in strictly *)
(* ascending order of date.                                                *)
(***************************************************************************)
SeriesBuilders ==
    {"generateTimeSeriesFromEnrichedEvents", "generateTimeSeriesFromLegacyHistory"}

ExplicitRange ==
    /\ args.startDate # NoDate
    /\ args.endDate # NoDate
    /\ args.startDate[1] <= args.endDate[1]

OnePointPerDay ==
    (op \in SeriesBuilders /\ ExplicitRange) =>
        /\ Len(res) = (args.endDate[1] - args.startDate[1]) + 1
        /\ \A i \in DOMAIN res : res[i].date = args.startDate[1] + (i - 1)

\* The same, in a time zone without a transition.
FixedOffset == args.env.tz.before = args.env.tz.after

OnePointPerDayFixedOffset ==
    (op \in SeriesBuilders /\ ExplicitRange /\ FixedOffset) =>
        /\ Len(res) = (args.endDate[1] - args.startDate[1]) + 1
        /\ \A i \in DOMAIN res : res[i].date = args.startDate[1] + (i - 1)


(***************************************************************************)
(* C8: in every point of the builders' series, eventCounts has exactly the *)
(* union map's event names as keys, and the value of event e on date d is  *)
(* the number of occurrences of e dated d in the input the builder scans   *)
(* (0 on a date without activity); an event whose name is not in the union *)
(* map changes no count.                                                   *)
(***************************************************************************)
\* The enriched occurrences of `name` dated `day`: (code, event, timestamp).
EnrichedOccurrences(codes, name, day) ==
    UNION { UNION { { <<c, k, t>> :
                        t \in { t \in DOMAIN codes[c].events[k].timestamps :
                                  codes[c].events[k].timestamps[t].date = day } } :
                    k \in { k \in DOMAIN codes[c].events :
                              codes[c].events[k].commission_event_name = name } } :
            c \in DOMAIN codes }

\* The user-level occurrences: (code, user, event), dated events only.
UserOccurrences(codes, name, day) ==
    UNION { UNION { { <<c, u, k>> :
                        k \in { k \in DOMAIN codes[c].users[u].events :
                                  LET e == codes[c].users[u].events[k]
                                  IN /\ e.type = name
                                     /\ e.date # NoDate
                                     /\ e.date[1].date = day } } :
                    u \in DOMAIN codes[c].users } :
            c \in DOMAIN codes }

\* The legacy builder scans the users only when no code has enriched events.
LegacyFallback ==
    /\ op = "generateTimeSeriesFromLegacyHistory"
    /\ \A c \in DOMAIN args.input :
          ~args.input[c].hasEvents \/ args.input[c].events = <<>>

ScannedOccurrences(name, day) ==
    IF LegacyFallback THEN UserOccurrences(args.input, name, day)
    ELSE EnrichedOccurrences(args.input, name, day)

AccumulatedDates ==
    IF LegacyFallback
    THEN { d \in 0..Today : \E name \in {s_purchase, s_free_trial, s_3_meals_logged} :
                               UserOccurrences(args.input, name, d) # {} }
    ELSE { d \in 0..Today : \E name \in {s_purchase, s_free_trial, s_3_meals_logged} :
                               EnrichedOccurrences(args.input, name, d) # {} }

TodayOf(env) == env.now \div HoursPerDay

ExpectedStart ==
    IF args.startDate # NoDate THEN args.startDate[1]
    ELSE IF AccumulatedDates # {} THEN Min(AccumulatedDates)
    ELSE TodayOf(args.env) - DefaultRangeDays

ExpectedEnd ==
    IF args.endDate # NoDate THEN args.endDate[1] ELSE TodayOf(args.env)

RangeResolution ==
    (op \in SeriesBuilders /\ ExpectedStart <= ExpectedEnd) =>
        /\ res # <<>>
        /\ res[1].date = ExpectedStart
        /\ res[Len(res)].date = ExpectedEnd

RangeResolutionFixedOffset ==
    (op \in SeriesBuilders /\ FixedOffset /\ ExpectedStart <= ExpectedEnd) =>
        /\ res # <<>>
        /\ res[1].date = ExpectedStart
        /\ res[Len(res)].date = ExpectedEnd

(***************************************************************************)
(* C10: a user contributes to a category only on the date of that user's   *)
(* earliest event of the category: the count of a category on a date is    *)
(* the number of users whose earliest event of that category has that      *)
(* date.                                                                   *)
(***************************************************************************)
\* The dates of a legacy user's dated events of a category.
UserDates(user, name) ==
    { user.events[k].date[1].date :
        k \in { k \in DOMAIN user.events :
                  user.events[k].type = name /\ user.events[k].date # NoDate } }

UsersFirstOn(codes, name, day) ==
    UNION { { <<c, u>> :
                u \in { u \in DOMAIN codes[c].users :
                          LET dates == UserDates(codes[c].users[u], name)
                          IN dates # {} /\ Min(dates) = day } } :
            c \in DOMAIN codes }

\* The UTC dates of the events of one user that classify to a category.
CategoryDates(events, category) ==
    { ISODate(events[k].purchased_at_ms) :
        k \in { k \in DOMAIN events : trialVsPurchaseIdentifier(events[k]) = category } }

FirstOn(events, category, day) ==
    LET dates == CategoryDates(events, category)
    IN Flag(dates # {} /\ Min(dates) = day)

FirstOccurrenceDateOnly ==
    /\ LegacyFallback =>
          \A i \in DOMAIN res : \A name \in DOMAIN res[i].eventCounts :
              res[i].eventCounts[name] =
                  Cardinality(UsersFirstOn(args.input, name, res[i].date))
    /\ op = "generateTimeSeriesWithDateRange" =>
          \A i \in DOMAIN res :
              /\ res[i].trialConversions = FirstOn(args.input, "free_trial", res[i].date)
              /\ res[i].paidConversions = FirstOn(args.input, "purchase", res[i].date)


(***************************************************************************)
(* C11: a user with a referral-creation date D and no lifecycle events     *)
(* produces a point for D whose signup count is 1 and whose every other    *)
(* category is 0, and adds nothing to free_trial or purchase on any date.  *)
(* Stated of generateTimeSeriesFromLegacyHistory called with that user     *)
(* alone, a given range that holds D and a time zone without a            *)
(* transition; the signup count of a point is read from signupConversions  *)
(* or from eventCounts.signup.                                             *)
(***************************************************************************)
SignupOnlyUserCall ==
    /\ op = "generateTimeSeriesFromLegacyHistory"
    /\ Len(args.input) = 1
    /\ ~HasEnrichedEvents(args.input[1])
    /\ Len(args.input[1].users) = 1
    /\ args.input[1].users[1].referralCreatedAt # NoDate
    /\ args.input[1].users[1].events = <<>>

SignupDate == DateKey(args.input[1].users[1].referralCreatedAt[1])

RangeHoldsSignupDate ==
    /\ args.env.tz.before = args.env.tz.after
    /\ args.startDate # NoDate /\ args.startDate[1] <= SignupDate
    /\ args.endDate # NoDate /\ SignupDate <= args.endDate[1]

SignupCount(point) ==
    IF point.signupConversions > 0 THEN point.signupConversions
    ELSE MapGet(point.eventCounts, s_signup, 0)

SignupOnlyUserPoint ==
    (SignupOnlyUserCall /\ RangeHoldsSignupDate) =>
        /\ \E i \in DOMAIN res :
               /\ res[i].date = SignupDate
               /\ SignupCount(res[i]) = 1
               /\ \A name \in DOMAIN res[i].eventCounts \ {s_signup} :
                      res[i].eventCounts[name] = 0
        /\ \A i \in DOMAIN res :
               /\ res[i].trialConversions = 0
               /\ res[i].paidConversions = 0
               /\ MapGet(res[i].eventCounts, s_free_trial, 0) = 0
               /\ MapGet(res[i].eventCounts, s_purchase, 0) = 0


(***************************************************************************)
(* C12: for all non-negative counts and rates (rates with more than two    *)
(* decimals included) calculateEarnings returns per-category amounts equal *)
(* to count x rate rounded to 2 decimals, and a total equal to the sum of  *)
(* the returned (already rounded) amounts, rounded to 2 decimals.          *)
(***************************************************************************)
IsRounded2(x) == x % ThousandthsPerCent = 0

NearestCent(x, product) ==
    /\ IsRounded2(x)
    /\ 2 * (x - product) <= ThousandthsPerCent
    /\ 2 * (product - x) <= ThousandthsPerCent

EarningsTotalOfRoundedAmounts ==
    op = "calculateEarnings" =>
        /\ NearestCent(res.fromTrials,
                       args.trialConversions * args.rates.perTrialConversion)
        /\ NearestCent(res.fromPaid,
                       args.paidConversions * args.rates.perPaidConversion)
        /\ NearestCent(res.total, res.fromTrials + res.fromPaid)


(***************************************************************************)
(* C13: for any list of referral codes calculateDashboardStats returns     *)
(* totalEarnings.total equal to the sum of the codes' earnings.total       *)
(* rounded to 2 decimals, a code without earnings contributing 0.          *)
(***************************************************************************)
RECURSIVE SumOver(_, _)
SumOver(S, f) ==
    IF S = {} THEN 0
    ELSE LET x == CHOOSE x \in S : TRUE IN f[x] + SumOver(S \ {x}, f)

CodeEarningsTotal(code) ==
    IF code.earnings = NoEarnings THEN 0 ELSE code.earnings[1].total

DashboardCalls == {"calculateDashboardStats", "frontend.calculateDashboardStats"}

DashboardTotalIsRoundedSum ==
    op \in DashboardCalls =>
        NearestCent(res.totalEarnings.total,
                    SumOver(DOMAIN args, [i \in DOMAIN args |-> CodeEarningsTotal(args[i])]))

\* Two codes with earnings and one without; the sum 1.125 + 4.25 = 5.375 is
\* not a whole number of cents.
DashboardTotalRounded ==
    /\ op \in DashboardCalls
    /\ \E i, j \in DOMAIN args :
           /\ args[i].earnings = NoEarnings
           /\ args[j].earnings # NoEarnings
    /\ ~IsRounded2(SumOver(DOMAIN args,
                           [i \in DOMAIN args |-> CodeEarningsTotal(args[i])]))


(***************************************************************************)
(* C14: for every list of codes produced by transformReferralCodes the     *)
(* dashboard's totalEarnings.total equals the sum of the per-category      *)
(* amounts of the combined breakdown (fromTrials + fromPaid in the         *)
(* fixed-category version) rounded to 2 decimals.                          *)
(***************************************************************************)
CombinedBreakdownSum ==
    IF op = "fetchCodes"
    THEN res.stats.totalEarnings.fromTrials + res.stats.totalEarnings.fromPaid
    ELSE SumBreakdown(res.stats.totalEarnings.breakdown)

DashboardTotalIsSumOfBreakdown ==
    op \in {"fetchCodes", "frontend.fetchCodes"} =>
        NearestCent(res.stats.totalEarnings.total, CombinedBreakdownSum)

\* The same for the dynamic-category version alone.
FrontendDashboardTotalIsSumOfBreakdown ==
    op = "frontend.fetchCodes" =>
        NearestCent(res.stats.totalEarnings.total, CombinedBreakdownSum)


(***************************************************************************)
(* C15: for every list of backend codes the stats of                       *)
(* calculateDashboardStats(transformReferralCodes(codes)) satisfy          *)
(* totalConversions = signupConversions + trialConversions +               *)
(* paidConversions, each of the four being the sum over the codes of the   *)
(* per-code value, and totalReferrals = signupConversions.                 *)
(***************************************************************************)
SumOfCodes(field) ==
    SumOver(DOMAIN res.referralCodes,
            [i \in DOMAIN res.referralCodes |-> res.referralCodes[i][field]])

BackendStat(backendRef, field) ==
    IF backendRef.stats = NoStats THEN 0 ELSE backendRef.stats[1][field]

ConversionTotalsConsistent ==
    op = "frontend.fetchCodes" =>
        /\ res.stats.totalConversions =
               res.stats.signupConversions + res.stats.trialConversions
               + res.stats.paidConversions
        /\ res.stats.totalConversions = SumOfCodes("conversions")
        /\ res.stats.signupConversions = SumOfCodes("signupConversions")
        /\ res.stats.trialConversions = SumOfCodes("trialConversions")
        /\ res.stats.paidConversions = SumOfCodes("paidConversions")
        /\ res.stats.totalReferrals = res.stats.signupConversions
        /\ \A i \in DOMAIN args.backendRefs :
               /\ res.referralCodes[i].signupConversions =
                      BackendStat(args.backendRefs[i], "totalReferrals")
               /\ res.referralCodes[i].trialConversions =
                      BackendStat(args.backendRefs[i], "free_trial")
               /\ res.referralCodes[i].paidConversions =
                      BackendStat(args.backendRefs[i], "purchase")

\* Two codes with different signups, trials and purchases.
ConversionTotalsOfTwoCodes ==
    /\ op = "frontend.fetchCodes"
    /\ Len(res.referralCodes) >= 2
    /\ res.referralCodes[1].signupConversions = 3
    /\ res.referralCodes[2].signupConversions = 1
    /\ res.stats.totalConversions = 10
    /\ res.stats.signupConversions = 4


(***************************************************************************)
(* C16: transformReferralCode derives the status by strict precedence:     *)
(* inactive when now is outside the schedule (endDate set and before now,  *)
(* or startDate set and after now), even if the quota is reached too;      *)
(* otherwise exhausted when a quota is set and usageCount >= quota, where  *)
(* usageCount = max(totalConversions, referralsCount) and totalConversions *)
(* adds the code's referrals to its trial and paid conversions; otherwise  *)
(* active.                                                                 *)
(***************************************************************************)
TransformCalls == {"transformReferralCode", "frontend.transformReferralCode"}

BackendReferrals ==
    IF op = "transformReferralCode" THEN args.backendRef.referrals
    ELSE BackendStat(args.backendRef, "totalReferrals")

BackendTrials ==
    IF op = "transformReferralCode"
    THEN (IF args.backendRef.purchaseNumbers = NoStats THEN 0
          ELSE args.backendRef.purchaseNumbers[1].trial)
    ELSE BackendStat(args.backendRef, "free_trial")

BackendPurchases ==
    IF op = "transformReferralCode"
    THEN (IF args.backendRef.purchaseNumbers = NoStats THEN 0
          ELSE args.backendRef.purchaseNumbers[1].paid)
    ELSE BackendStat(args.backendRef, "purchase")

OutsideSchedule ==
    \/ args.backendRef.endDate # NoDate /\ args.backendRef.endDate[1] < args.env.now
    \/ args.backendRef.startDate # NoDate /\ args.backendRef.startDate[1] > args.env.now

ExpectedUsageCount ==
    LET totalConversions == BackendReferrals + BackendTrials + BackendPurchases
    IN IF totalConversions >= BackendReferrals THEN totalConversions
       ELSE BackendReferrals

QuotaReached ==
    /\ args.backendRef.quota # NoQuota
    /\ ExpectedUsageCount >= args.backendRef.quota[1]

ExpectedStatus ==
    IF OutsideSchedule THEN "inactive"
    ELSE IF QuotaReached THEN "exhausted"
    ELSE "active"

StatusPrecedence ==
    op \in TransformCalls => res.status = ExpectedStatus

\* The same for the dynamic-category version alone.
FrontendStatusPrecedence ==
    op = "frontend.transformReferralCode" => res.status = ExpectedStatus


(***************************************************************************)
(* C17: a code with zero conversions and zero referrals is transformed to  *)
(* status active whenever its schedule does not make it inactive, for      *)
(* every quota value (absent, positive or 0), and its earnings are present *)
(* with total 0 and every breakdown amount 0.                              *)
(***************************************************************************)
ZeroActivity ==
    /\ op \in TransformCalls
    /\ BackendReferrals = 0
    /\ BackendTrials = 0
    /\ BackendPurchases = 0

AllZeroEarnings(earnings) ==
    /\ earnings # NoEarnings
    /\ earnings[1].total = 0
    /\ IF op = "transformReferralCode"
       THEN earnings[1].fromTrials = 0 /\ earnings[1].fromPaid = 0
       ELSE \A event \in DOMAIN earnings[1].breakdown :
                earnings[1].breakdown[event] = 0

ZeroActivityCodeIsActive ==
    (ZeroActivity /\ ~OutsideSchedule) =>
        /\ res.status = "active"
        /\ AllZeroEarnings(res.earnings)

\* The same for the dynamic-category version alone, with a quota that is
\* absent or positive.
ZeroActivityCodeIsActivePositiveQuota ==
    ( /\ ZeroActivity
      /\ ~OutsideSchedule
      /\ op = "frontend.transformReferralCode"
      /\ (args.backendRef.quota = NoQuota \/ args.backendRef.quota[1] > 0) ) =>
        /\ res.status = "active"
        /\ AllZeroEarnings(res.earnings)


(***************************************************************************)
(* C18: for any list of referral codes calculateDashboardStats returns     *)
(* activeReferralCodes, inactiveReferralCodes and exhaustedReferralCodes   *)
(* equal to the number of input codes with that status; their sum equals   *)
(* totalReferralCodes, which equals the length of the input list.          *)
(***************************************************************************)
CodesWithStatus(status) ==
    Cardinality({i \in DOMAIN args : args[i].status = status})

StatusTalliesMatch ==
    op \in DashboardCalls =>
        /\ res.activeReferralCodes = CodesWithStatus("active")
        /\ res.inactiveReferralCodes = CodesWithStatus("inactive")
        /\ res.exhaustedReferralCodes = CodesWithStatus("exhausted")
        /\ res.activeReferralCodes + res.inactiveReferralCodes
           + res.exhaustedReferralCodes = res.totalReferralCodes
        /\ res.totalReferralCodes = Len(args)

\* Two codes, one exhausted and one inactive.
StatusTalliesOfMixedCodes ==
    /\ op \in DashboardCalls
    /\ Len(args) = 2
    /\ args[1].status = "exhausted"
    /\ args[2].status = "inactive"
    /\ res.exhaustedReferralCodes = 1
    /\ res.activeReferralCodes = 0


(***************************************************************************)
(* C19: when the input codes carry different earnings currencies,          *)
(* calculateDashboardStats reports totalEarnings.currency as the currency  *)
(* of the last code, in input order, that has earnings; when no code has   *)
(* earnings the currency is USD.                                           *)
(***************************************************************************)
CodesWithEarnings == {i \in DOMAIN args : args[i].earnings # NoEarnings}

LastWithEarnings == CHOOSE i \in CodesWithEarnings : \A j \in CodesWithEarnings : j <= i

LastSeenCurrencyWins ==
    op \in DashboardCalls =>
        res.totalEarnings.currency =
            IF CodesWithEarnings = {} THEN "USD"
            ELSE args[LastWithEarnings].earnings[1].currency

\* The first code's earnings are in one currency, the second's in another.
CurrenciesDiffer ==
    /\ op \in DashboardCalls
    /\ Len(args) >= 2
    /\ args[1].earnings # NoEarnings
    /\ args[2].earnings # NoEarnings
    /\ args[1].earnings[1].currency # args[2].earnings[1].currency
    /\ res.totalEarnings.currency # args[1].earnings[1].currency


(***************************************************************************)
(* C20: parsePurchaseEvents never throws: when record.event is a string    *)
(* that is not valid JSON it returns an empty list, and when record.event  *)
(* is neither an array nor a string it returns an empty list.              *)
(***************************************************************************)
ParseCalls == {"parsePurchaseEvents", "frontend.parsePurchaseEvents"}

InvalidJsonString ==
    /\ args.event.type = "string"
    /\ JSONParse(args.event.text).threw

ParseNeverThrows ==
    op \in ParseCalls =>
        /\ ~res.threw
        /\ InvalidJsonString => res.value = <<>>
        /\ args.event.type \notin {"array", "string"} => res.value = <<>>

\* An array text that is cut short after a well-formed event.
CorruptRecordGivesEmptyList ==
    /\ op \in ParseCalls
    /\ args.event.type = "string"
    /\ args.event.text = <<"[", "E", ",">>
    /\ res = Returned(<<>>)


(***************************************************************************)
(* C21: parsePurchaseEvents returns exactly the elements of its input (an  *)
(* array, a parsed JSON array, or a single parsed object) that pass the    *)
(* purchase-event type guard, in their original order: no element failing  *)
(* the guard is returned and an invalid element never causes a valid one   *)
(* to be dropped.                                                          *)
(***************************************************************************)
InputElements ==
    IF args.event.type = "array" THEN args.event.items
    ELSE IF args.event.type = "string" /\ ~JSONParse(args.event.text).threw
    THEN LET value == JSONParse(args.event.text).value
         IN IF value.kind = "array" THEN value.items ELSE <<value>>
    ELSE <<>>

PassesGuard(element) == element.kind = "object" /\ element.like

ParseReturnsGuardedElements ==
    op \in ParseCalls =>
        /\ ~res.threw
        /\ res.value = SelectSeq(InputElements, PassesGuard)

\* The same for the version with the type guard alone.
GuardedParseReturnsGuardedElements ==
    op = "parsePurchaseEvents" =>
        /\ ~res.threw
        /\ res.value = SelectSeq(InputElements, PassesGuard)

\* C22: a refresh is an all-or-nothing join: whatever the hook holds that was
\* computed from a response of a refresh (referral codes, stats, time
\* series) is held only when both requests of that refresh have completed
\* successfully.
RefreshSucceeded(r) ==
    /\ codesRequest[r] = "succeeded"
    /\ historyRequest[r] = "succeeded"

CommittedFrom(r) ==
    \/ hookReferralCodes = CodesOf(r)
    \/ hookStats = CodesOf(r)
    \/ timeSeriesData.refresh = r

RefreshIsAllOrNothing ==
    \A r \in Refreshes : CommittedFrom(r) => RefreshSucceeded(r)

\* The stats of a refresh held while its purchase-history request is still
\* in flight.
StatsCommittedDuringHistoryRequest ==
    \E r \in Refreshes : hookStats = CodesOf(r) /\ historyRequest[r] = "in flight"

\* C23: when the referral-code request or the purchase-history request of a
\* refresh has failed (rejected, or answered with success = false), the error
\* state is non-null once that refresh has completed.  The refresh is the
\* most recently started one: a later fetchData clears the error state.
Failed(request) == request \in {"unsuccessful", "rejected"}

Completed(r) ==
    /\ codesRequest[r] \in Outcomes
    /\ historyRequest[r] \in Outcomes

LatestRefresh(r) ==
    /\ codesRequest[r] # "not issued"
    /\ \A q \in Refreshes : q > r => codesRequest[q] = "not issued"

AllCompleted ==
    \A r \in Refreshes : codesRequest[r] # "not issued" => Completed(r)

LaterRefreshWins ==
    \A r \in Refreshes :
        LatestRefresh(r) /\ AllCompleted /\ RefreshSucceeded(r)
        => /\ hookReferralCodes = CodesOf(r)
           /\ hookStats = CodesOf(r)
           /\ timeSeriesData = SeriesOf(r, "succeeded")

\* C29: every request being answered eventually, whenever a refresh is in
\* flight the hook comes to a state where every refresh that was started has
\* completed and neither loading flag is true, whether the requests
\* succeeded, answered with success = false or were rejected.
RefreshInFlight ==
    \E r \in Refreshes :
        codesRequest[r] = "in flight" \/ historyRequest[r] = "in flight"

LoadingEnds ==
    RefreshInFlight
    ~> (AllCompleted /\ ~loadingCodes /\ ~loadingHistory)

\* A refresh of which one request was rejected and the other answered with
\* success = false has completed, with both loading flags false.
FailedRefreshStoppedLoading ==
    \E r \in Refreshes :
        /\ Completed(r)
        /\ codesRequest[r] = "rejected"
        /\ historyRequest[r] = "unsuccessful"
        /\ ~loadingCodes
        /\ ~loadingHistory

\* C25: for a range that covers all activity, the eventCounts of an event
\* name summed over the points of generateTimeSeriesFromLegacyHistory equal
\* the total of aggregateGlobalTotalsFromLegacy for that name, for every
\* name of the union map, when each enriched event's count is its number of
\* timestamps and each code's stats are its users' dated events; codes with
\* and without enriched events may be mixed and an events list may be empty.
CountsAgree(codes) ==
    \A c \in DOMAIN codes :
        /\ codes[c].stats = StatsOfUsers(codes[c].users)
        /\ \A k \in DOMAIN codes[c].events :
              codes[c].events[k].count = Len(codes[c].events[k].timestamps)

ActivityDates(codes) ==
    UNION { { DateKey(codes[c].events[k].timestamps[t]) :
                <<k, t>> \in UNION { {k} \X DOMAIN codes[c].events[k].timestamps :
                                       k \in DOMAIN codes[c].events } }
            \cup UNION { UserDates(codes[c].users[u], name) :
                           <<u, name>> \in (DOMAIN codes[c].users)
                                           \X {s_signup, s_free_trial, s_purchase} } :
            c \in DOMAIN codes }

RangeCoversActivity ==
    /\ args.startDate # NoDate
    /\ args.endDate # NoDate
    /\ \A day \in ActivityDates(args.input) :
          args.startDate[1] <= day /\ day <= args.endDate[1]

SeriesTotal(name) ==
    SumOver(DOMAIN res, [i \in DOMAIN res |-> MapGet(res[i].eventCounts, name, 0)])

LegacySeriesCall ==
    /\ op = "generateTimeSeriesFromLegacyHistory"
    /\ FixedOffset
    /\ RangeCoversActivity
    /\ CountsAgree(args.input)

LegacySeriesSumsToTotals ==
    LegacySeriesCall =>
        \A name \in MapKeys(args.unionMap) :
            SeriesTotal(name)
            = aggregateGlobalTotalsFromLegacy(args.input, args.unionMap)[name]

\* Every code has enriched events, or none has an events list.
UniformCodes(codes) ==
    \/ \A c \in DOMAIN codes : HasEnrichedEvents(codes[c])
    \/ \A c \in DOMAIN codes : ~codes[c].hasEvents

UniformLegacySeriesSumsToTotals ==
    (LegacySeriesCall /\ UniformCodes(args.input)) =>
        \A name \in MapKeys(args.unionMap) :
            SeriesTotal(name)
            = aggregateGlobalTotalsFromLegacy(args.input, args.unionMap)[name]

\* C26: in every data point handed to the chart, total_metric is the sum of
\* the values of all the per-event series of that point (counts in count
\* mode, count times rate in earnings mode), whatever event keys the data
\* hold.
SumOfSeries(node, keys) ==
    SumOver(keys, [key \in keys |-> node.values[key]])

TotalMetricIsSumOfAllSeries ==
    op = "PerformanceCharts" =>
        \A i \in DOMAIN res :
            res[i].total_metric = SumOfSeries(res[i], DOMAIN res[i].values)

\* C26, as the component does it: link_click is a series of the point but
\* not part of total_metric.
TotalMetricIsSumOfConversionSeries ==
    op = "PerformanceCharts" =>
        \A i \in DOMAIN res :
            res[i].total_metric
            = SumOfSeries(res[i], DOMAIN res[i].values \ {s_link_click})

\* A point with link clicks and a purchase, and without a key that only
\* another point has.
PointWithLinkClicks ==
    /\ op = "PerformanceCharts"
    /\ \E i \in DOMAIN res :
          /\ s_link_click \in DOMAIN res[i].values
          /\ res[i].values[s_link_click] > 0
          /\ s_purchase \in DOMAIN res[i].values
          /\ res[i].values[s_purchase] > 0
          /\ \E j \in DOMAIN args.timeSeriesData :
                /\ args.timeSeriesData[j].date = res[i].date
                /\ DOMAIN args.timeSeriesData[j].eventCounts
                   # DOMAIN res[i].values

\* C27: the earnings UserDetailView shows for a user pay each category at
\* most once: from trials, the free_trial rate if an event of the user
\* classifies as free_trial and 0 otherwise; from paid, the purchase rate if
\* an event classifies as purchase (an initial purchase of a normal period
\* or a renewal) and 0 otherwise, however often such events repeat.
RateIfAny(events, category, name) ==
    IF \E k \in DOMAIN events : trialVsPurchaseIdentifier(events[k]) = category
    THEN getRate(args.commissionConfig, name)
    ELSE 0

UserEarningsOncePerCategory ==
    op = "UserDetailView" =>
        /\ res.fromTrials = RateIfAny(args.events, "free_trial", s_free_trial)
        /\ res.fromPaid = RateIfAny(args.events, "purchase", s_purchase)

\* C30: login never rejects and calls getAffiliateUser at most 3 times; it
\* resolves with success = true exactly when it has set the user state to a
\* user with non-empty name and email taken from a response and written the
\* same user to local storage, and when it resolves with success = false the
\* user state and the stored user are as they were before the call.
ResponseUsers ==
    { AuthUser(r.name, r.email) :
        r \in { r \in {args.response}
                      \cup {args.meResponses[k] : k \in DOMAIN args.meResponses} :
                  ~r.rejected /\ HasUserDetails(r) } }

====
